---- MODULE Spec2Model ----
(***************************************************************************)
(* Model of the product import endpoint (POST, nextCodeForPrefix,          *)
(* CATEGORY_PREFIX, buildProductDetails), of the BWA import page that      *)
(* posts to it, of the product-selection page and of the area endpoint.    *)
(*                                                                         *)
(* A JavaScript string is a sequence of atoms.  An atom is a TLA+ string:  *)
(* a single character where characters matter (codes, prices), a whole     *)
(* word where they do not (labels, free text).  The atom " " is white      *)
(* space.  undefined and null are the two sentinel sequences below.        *)
(***************************************************************************)
EXTENDS Integers, Sequences, FiniteSets, TLC

VARIABLES
  catalog,   \* the product table, in insertion order
  r2,        \* the keys stored in the image bucket
  req,       \* per slot, the import request being served
  nreq,      \* how many requests have been received
  alloc,     \* how many codes nextCodeForPrefix has returned, and the last one
  page,      \* the state of the BWA import page
  sheet,     \* the state of the product-selection page
  areas,     \* the area table, in insertion order
  areq,      \* per slot, the area request being served
  scan,      \* the run of the Record Parser over one document
  form       \* the state of the create-schedule form

vars == <<catalog, r2, req, nreq, alloc, page, sheet, areas, areq, scan, form>>

\* ------------------------------------------------------------------ bounds

\* request slots that may be in flight at the same time
NumSlots == 2
\* requests received in one behaviour of Spec
MaxRequests == 2
\* sequential one-product imports in one behaviour of SpecSeq
MaxSeq == 1001
\* operator actions on the BWA page in one behaviour of SpecBwa
MaxEdits == 5
\* rows of the BWA table
MaxRows == 2
\* operator actions on the selection page in one behaviour of SpecSheet
MaxSheetEdits == 4

\* how many times the operator of the create-schedule form acts
MaxFormEdits == 4

Slots == 1..NumSlots

\* ------------------------------------------------------------- JS strings

Undef == <<"<undefined>">>
Null == <<"<null>">>
Empty == <<>>
WS == " "

IsStr(x) == x # Undef /\ x # Null

\* JS truthiness of a string-or-absent value
Truthy(x) == IsStr(x) /\ x # Empty

Range(s) == {s[i] : i \in 1..Len(s)}

\* the characters of codes and prices, in code-unit order
Chars ==
  <<" ", "$", ",", "-", ".", "0", "1", "2", "3", "4", "5", "6", "7", "8", "9",
    "A", "B", "C", "D", "E", "F", "G", "W", "Z", "x">>

Ord == [c \in Range(Chars) |-> CHOOSE i \in 1..Len(Chars) : Chars[i] = c]

Digits == <<"0", "1", "2", "3", "4", "5", "6", "7", "8", "9">>

DigitSet == Range(Digits)

DigitVal == [c \in DigitSet |-> (CHOOSE i \in 1..10 : Digits[i] = c) - 1]

Min(a, b) == IF a < b THEN a ELSE b

\* String.prototype.trim
Trim(s) ==
  LET keep == {i \in 1..Len(s) : s[i] # WS}
  IN  IF keep = {} THEN Empty
      ELSE LET lo == CHOOSE i \in keep : \A j \in keep : i <= j
               hi == CHOOSE i \in keep : \A j \in keep : j <= i
           IN  SubSeq(s, lo, hi)

\* String.prototype.startsWith
StartsWith(s, p) == Len(s) >= Len(p) /\ SubSeq(s, 1, Len(p)) = p

\* String.prototype.slice(n)
SliceFrom(s, n) == SubSeq(s, n + 1, Len(s))

\* s < t in the order of ORDER BY code (code-unit lexicographic order)
StrLess(s, t) ==
  \E k \in 1..(Min(Len(s), Len(t)) + 1) :
    /\ \A j \in 1..(k - 1) : s[j] = t[j]
    /\ k <= Len(t)
    /\ (k <= Len(s) => Ord[s[k]] < Ord[t[k]])

\* a JS number restricted to the integers and NaN
NaN == [nan |-> TRUE, val |-> 0]

Num(n) == [nan |-> FALSE, val |-> n]

RECURSIVE DigitsValue(_)
DigitsValue(s) ==
  IF s = Empty THEN 0
  ELSE 10 * DigitsValue(SubSeq(s, 1, Len(s) - 1)) + DigitVal[s[Len(s)]]

AllDigits(s) == s # Empty /\ \A i \in 1..Len(s) : s[i] \in DigitSet

\* Number(string), for strings of digits, signs, letters and white space
ToNumber(s) ==
  LET t == Trim(s)
  IN  IF t = Empty THEN Num(0)
      ELSE IF AllDigits(t) THEN Num(DigitsValue(t))
      ELSE IF t[1] = "-" /\ AllDigits(Tail(t)) THEN Num(0 - DigitsValue(Tail(t)))
      ELSE IF t[1] = "+" /\ AllDigits(Tail(t)) THEN Num(DigitsValue(Tail(t)))
      ELSE NaN

RECURSIVE NatToString(_)
NatToString(n) ==
  IF n < 10 THEN <<Digits[n + 1]>>
  ELSE NatToString(n \div 10) \o <<Digits[(n % 10) + 1]>>

\* String(number), for integers
NumToString(n) == IF n < 0 THEN <<"-">> \o NatToString(0 - n) ELSE NatToString(n)

RECURSIVE PadStart(_, _, _)
PadStart(s, w, c) == IF Len(s) >= w THEN s ELSE PadStart(<<c>> \o s, w, c)

\* ------------------------------------------------------------ the catalog

\* a price: a decimal number (sign, integer part, fraction digits without
\* trailing zeros), NaN, or null
PriceNull == [kind |-> "null", neg |-> FALSE, int |-> 0, frac |-> Empty]

PriceNaN == [kind |-> "nan", neg |-> FALSE, int |-> 0, frac |-> Empty]

PriceNum(neg, int, frac) == [kind |-> "num", neg |-> neg, int |-> int, frac |-> frac]

\* the greater of two findFirst candidates (Null: no candidate)
Greater(a, b) ==
  IF a = Null THEN b ELSE IF b = Null THEN a ELSE IF StrLess(a, b) THEN b ELSE a

\* prisma.product.findFirst({where: {code: {startsWith}}, orderBy: {code: "desc"}})
\* over cat[lo..hi]: the greatest code that starts with prefix, or Null
RECURSIVE FindFirstDesc(_, _, _, _)
FindFirstDesc(cat, prefix, lo, hi) ==
  IF lo > hi THEN Null
  ELSE IF lo = hi
    THEN IF StartsWith(cat[lo].code, prefix) THEN cat[lo].code ELSE Null
  ELSE LET mid == (lo + hi) \div 2
       IN  Greater(FindFirstDesc(cat, prefix, lo, mid),
                   FindFirstDesc(cat, prefix, mid + 1, hi))

\* a default of 1 for the current number: Number(x) || 1
OrOne(n) == IF n.nan \/ n.val = 0 THEN 1 ELSE n.val

\* Number(x) || 0
OrZero(n) == IF n.nan THEN 0 ELSE n.val

\* a format that keeps the last three digits only
FormatNumberThreeDigits(n) ==
  LET d == PadStart(NumToString(n), 3, "0") IN SubSeq(d, Len(d) - 2, Len(d))

\* the digits of the next code: String(nextNumber).padStart(3, "0")
FormatNumber(n) == PadStart(NumToString(n), 3, "0")

\* the number nextCodeForPrefix takes as current
CurrentNumber(cat, prefix) ==
  LET latest == FindFirstDesc(cat, prefix, 1, Len(cat))
  IN  IF latest # Null /\ StartsWith(latest, prefix)
      THEN OrZero(ToNumber(SliceFrom(latest, Len(prefix))))
      ELSE 0

nextCodeForPrefix(cat, prefix) ==
  LET nextNumber == CurrentNumber(cat, prefix) + 1
  IN  prefix \o FormatNumber(nextNumber)

CodesOf(cat) == {cat[i].code : i \in 1..Len(cat)}

\* ------------------------------------------------------- category prefixes

Other == <<"Other">>

OwnLabels ==
  {<<"Kitchen">>, <<"Bathroom">>, <<"Bedroom">>, <<"Living", " ", "Room">>,
   <<"Laundry">>, <<"Balcony">>, <<"Patio">>, Other}

CATEGORY_PREFIX ==
  [l \in OwnLabels |->
     CASE l = <<"Kitchen">> -> <<"A">>
       [] l = <<"Bathroom">> -> <<"E">>
       [] l = <<"Bedroom">> -> <<"B">>
       [] l = <<"Living", " ", "Room">> -> <<"C">>
       [] l = <<"Laundry">> -> <<"F">>
       [] l = <<"Balcony">> -> <<"G">>
       [] l = <<"Patio">> -> <<"D">>
       [] l = Other -> <<"Z">>]

\* CATEGORY_PREFIX is an object literal: a key it does not own is looked up on
\* Object.prototype, whose members are functions and objects, not strings
ObjectPrototypeKeys ==
  {<<"constructor">>, <<"toString">>, <<"valueOf">>, <<"hasOwnProperty">>,
   <<"isPrototypeOf">>, <<"toLocaleString">>, <<"propertyIsEnumerable">>,
   <<"__proto__">>}

Inherited == <<"<inherited member of Object.prototype>">>

\* CATEGORY_PREFIX[key]
Lookup(key) ==
  IF key \in OwnLabels THEN CATEGORY_PREFIX[key]
  ELSE IF key \in ObjectPrototypeKeys THEN Inherited
  ELSE Undef

\* (raw?.category || "Other").trim() || "Other"
CategoryOf(raw) ==
  LET c == IF Truthy(raw.category) THEN raw.category ELSE Other
      t == Trim(c)
  IN  IF t # Empty THEN t ELSE Other

\* CATEGORY_PREFIX[category] || CATEGORY_PREFIX.Other
PrefixOf(category) ==
  LET v == Lookup(category)
  IN  IF v # Undef /\ v # Empty THEN v ELSE CATEGORY_PREFIX[Other]

\* --------------------------------------------------- the fields of a row

\* the length of the run of digits s starts with
DigitRun(s) ==
  CHOOSE n \in 0..Len(s) :
    /\ \A i \in 1..n : s[i] \in DigitSet
    /\ (n = Len(s) \/ s[n + 1] \notin DigitSet)

RECURSIVE StripZeros(_)
StripZeros(s) ==
  IF s # Empty /\ s[Len(s)] = "0" THEN StripZeros(SubSeq(s, 1, Len(s) - 1)) ELSE s

\* Number.parseFloat: the longest prefix of the string, after leading white
\* space, that is a decimal literal; what follows it is ignored
parseFloat(s) ==
  LET lead == {i \in 1..Len(s) : s[i] # WS}
      t == IF lead = {} THEN Empty
           ELSE SubSeq(s, CHOOSE i \in lead : \A j \in lead : i <= j, Len(s))
      signed == t # Empty /\ t[1] \in {"-", "+"}
      u == IF signed THEN Tail(t) ELSE t
      n1 == DigitRun(u)
      hasDot == Len(u) > n1 /\ u[n1 + 1] = "."
      v == IF hasDot THEN SubSeq(u, n1 + 2, Len(u)) ELSE Empty
      n2 == DigitRun(v)
  IN  IF n1 + n2 = 0 THEN PriceNaN
      ELSE PriceNum(signed /\ t[1] = "-", DigitsValue(SubSeq(u, 1, n1)),
                    StripZeros(SubSeq(v, 1, n2)))

\* raw?.price ? Number.parseFloat(raw.price) : NaN, and then
\* Number.isFinite(priceNumber) && !Number.isNaN(priceNumber) ? priceNumber : null
PriceOf(raw) ==
  LET priceNumber == IF Truthy(raw.price) THEN parseFloat(raw.price) ELSE PriceNaN
  IN  IF priceNumber.kind = "num" THEN priceNumber ELSE PriceNull

\* x?.trim()
TrimOpt(x) == IF IsStr(x) THEN Trim(x) ELSE Undef

\* a || b
Or(a, b) == IF Truthy(a) THEN a ELSE b

RECURSIVE Join(_, _)
Join(parts, sep) ==
  IF Len(parts) = 0 THEN Empty
  ELSE IF Len(parts) = 1 THEN parts[1]
  ELSE parts[1] \o sep \o Join(Tail(parts), sep)

buildProductDetails(p) ==
  LET parts ==
        (IF Truthy(TrimOpt(p.productDetails)) THEN <<Trim(p.productDetails)>> ELSE <<>>)
        \o (IF Truthy(TrimOpt(p.areaDescription))
            THEN <<<<"Area: ">> \o Trim(p.areaDescription)>> ELSE <<>>)
        \o (IF Truthy(TrimOpt(p.quantity))
            THEN <<<<"Qty: ">> \o Trim(p.quantity)>> ELSE <<>>)
        \o (IF Truthy(TrimOpt(p.notes))
            THEN <<<<"Notes: ">> \o Trim(p.notes)>> ELSE <<>>)
  IN  IF Len(parts) > 0 THEN Join(parts, <<" | ">>) ELSE Null

PlaceholderImage == <<"https://placehold.co/600x600?text=No+Image">>

\* `product-sheet/${prefix}/${code}-${Date.now()}.jpg`; the time stamp is the
\* atom "<now>"
ImageKey(prefix, code) ==
  <<"product-sheet/">> \o prefix \o <<"/">> \o code \o <<"-", "<now>", ".jpg">>

getPublicUrl(key) == <<"<r2 public base>/">> \o key

\* the data of prisma.product.create for one incoming product
RowOf(raw, category, code, imageUrl) ==
  [code |-> code,
   name |-> Or(TrimOpt(raw.description),
               Or(TrimOpt(raw.code), <<"Product ">> \o code)),
   area |-> category,
   description |-> Or(TrimOpt(raw.description), <<"N/A">>),
   manufacturerDescription |-> Or(TrimOpt(raw.manufacturerDescription), Null),
   productDetails |-> buildProductDetails(raw),
   price |-> PriceOf(raw),
   imageUrl |-> imageUrl]

\* an incoming product with no field set
NoFields ==
  [category |-> Undef, code |-> Undef, description |-> Undef,
   manufacturerDescription |-> Undef, productDetails |-> Undef,
   areaDescription |-> Undef, quantity |-> Undef, price |-> Undef,
   notes |-> Undef, image |-> Undef, imageUrl |-> Undef, areaName |-> Undef]

\* ------------------------------------------------- the import endpoint POST

NoBody == [kind |-> "none", products |-> <<>>]

\* db counts the calls the request has made to prisma
IdleReq ==
  [pc |-> "idle", origin |-> "none", session |-> FALSE, body |-> NoBody,
   idx |-> 0, saved |-> <<>>, category |-> Undef, prefix |-> Undef,
   code |-> Undef, imageUrl |-> Undef, status |-> 0, savedCount |-> 0,
   tries |-> 0, conflict |-> FALSE, fault |-> FALSE, before |-> <<>>,
   db |-> 0]

\* the request reaches the endpoint
Arrive(r, origin, session, body) ==
  req' = [req EXCEPT ![r] =
            [IdleReq EXCEPT !.pc = "received", !.origin = origin,
                            !.session = session, !.body = body,
                            !.before = catalog]]

\* a response that counts the product in hand among the saved ones
RespondCountingCurrent(q, status) ==
  [q EXCEPT !.pc = "done", !.status = status, !.savedCount = q.idx]

\* NextResponse.json(..., {status})
Respond(q, status) ==
  [q EXCEPT !.pc = "done", !.status = status, !.savedCount = Len(q.saved)]

\* the unique index on Product.code: create is rejected when the code is taken
UniqueViolation(cat, code) == code \in CodesOf(cat)

\* a create that writes over the newest row instead of adding one
InsertedOverNewest(cat, row) ==
  IF cat = <<>> THEN <<row>> ELSE [cat EXCEPT ![Len(cat)] = row]

\* the table after prisma.product.create({data: row})
Inserted(cat, row) == Append(cat, row)

\* a request from some client of the endpoint
Receive(r, session, body) ==
  /\ req[r].pc = "idle"
  /\ nreq < MaxRequests
  /\ Arrive(r, "client", session, body)
  /\ nreq' = nreq + 1
  /\ UNCHANGED <<catalog, r2, alloc, page, sheet, areas, areq, scan, form>>

\* checks that read the body before they look for the session
ValidateBodyFirst(r) ==
  LET q == req[r]
  IN  /\ q.pc = "received"
      /\ req' = [req EXCEPT ![r] =
                   IF q.body.kind = "badjson" THEN Respond(q, 400)
                   ELSE IF ~q.session THEN Respond(q, 401)
                   ELSE IF q.body.kind # "array" \/ Len(q.body.products) = 0
                     THEN Respond(q, 400)
                   ELSE [q EXCEPT !.pc = "alloc", !.idx = 1]]
      /\ UNCHANGED <<catalog, r2, nreq, alloc, page, sheet, areas, areq, scan, form>>

\* the session check, the body and the products check
Validate(r) ==
  LET q == req[r]
  IN  /\ q.pc = "received"
      /\ req' = [req EXCEPT ![r] =
                   IF ~q.session THEN Respond(q, 401)
                   ELSE IF q.body.kind = "badjson" THEN Respond(q, 400)
                   ELSE IF q.body.kind # "array" \/ Len(q.body.products) = 0
                     THEN Respond(q, 400)
                   ELSE [q EXCEPT !.pc = "alloc", !.idx = 1]]
      /\ UNCHANGED <<catalog, r2, nreq, alloc, page, sheet, areas, areq, scan, form>>

\* category, prefix and await nextCodeForPrefix(prefix) for products[idx]
Alloc(r) ==
  LET q == req[r]
      raw == q.body.products[q.idx]
      category == CategoryOf(raw)
      prefix == PrefixOf(category)
      code == nextCodeForPrefix(catalog, prefix)
      q1 == [q EXCEPT !.category = category, !.prefix = prefix,
                      !.tries = q.tries + 1, !.db = q.db + 1]
  IN  /\ q.pc = "alloc"
      /\ IF prefix = Inherited
         THEN \* startsWith is given a value that is no string: findFirst rejects
              /\ req' = [req EXCEPT ![r] = Respond(q1, 500)]
              /\ UNCHANGED alloc
         ELSE /\ req' = [req EXCEPT ![r] =
                           [q1 EXCEPT !.code = code,
                                      !.imageUrl = PlaceholderImage,
                                      !.pc = IF Truthy(raw.image) THEN "upload"
                                             ELSE "create"]]
              /\ alloc' = [n |-> alloc.n + 1, last |-> code]
      /\ UNCHANGED <<catalog, r2, nreq, page, sheet, areas, areq, scan, form>>

\* await uploadToR2(...) and getPublicUrl(key)
Upload(r) ==
  LET q == req[r]
      key == ImageKey(q.prefix, q.code)
  IN  /\ q.pc = "upload"
      /\ r2' = r2 \cup {key}
      /\ req' = [req EXCEPT ![r] =
                   [q EXCEPT !.imageUrl = getPublicUrl(key), !.pc = "create"]]
      /\ UNCHANGED <<catalog, nreq, alloc, page, sheet, areas, areq, scan, form>>

\* await prisma.product.create(...) and saved.push(product)
Create(r) ==
  LET q == req[r]
      raw == q.body.products[q.idx]
      row == RowOf(raw, q.category, q.code, q.imageUrl)
  IN  /\ q.pc = "create"
      /\ IF UniqueViolation(catalog, q.code)
         THEN /\ req' = [req EXCEPT ![r] =
                           Respond([q EXCEPT !.conflict = TRUE, !.db = q.db + 1],
                                   500)]
              /\ UNCHANGED catalog
         ELSE /\ catalog' = Inserted(catalog, row)
              /\ req' = [req EXCEPT ![r] =
                   LET q1 == [q EXCEPT !.saved = Append(q.saved, row),
                                       !.db = q.db + 1]
                   IN  IF q.idx < Len(q.body.products)
                       THEN [q1 EXCEPT !.idx = q.idx + 1, !.pc = "alloc", !.tries = 0]
                       ELSE Respond(q1, 200)]
      /\ UNCHANGED <<r2, nreq, alloc, page, sheet, areas, areq, scan, form>>

\* the store or the bucket is unreachable: the awaited call rejects
StorageFails(r) ==
  LET q == req[r]
  IN  /\ q.pc \in {"alloc", "upload", "create"}
      /\ req' = [req EXCEPT ![r] =
                   Respond([q EXCEPT !.fault = TRUE,
                                     !.db = IF q.pc = "upload" THEN q.db
                                            ELSE q.db + 1],
                           500)]
      /\ UNCHANGED <<catalog, r2, nreq, alloc, page, sheet, areas, areq, scan, form>>

\* the client takes the response
Deliver(r) ==
  /\ req[r].pc = "done"
  /\ req[r].origin = "client"
  /\ req' = [req EXCEPT ![r] = IdleReq]
  /\ UNCHANGED <<catalog, r2, nreq, alloc, page, sheet, areas, areq, scan, form>>

\* ------------------------------------------------------------ BWA page

EmptyRow(id) ==
  [id |-> id, code |-> Empty, manufacturerDescription |-> Empty,
   price |-> Empty, imageUrl |-> Empty, notes |-> Empty]

\* parsedInfo: null, or {pageCount, productCount}
NoInfo == [set |-> FALSE, pageCount |-> 0, productCount |-> 0]

\* the page after its first render: one empty row, nothing in flight;
\* inflight counts the parse-pdf requests that have not settled
PageInit ==
  [rows |-> <<EmptyRow(1)>>, nextId |-> 2, saving |-> FALSE, parsing |-> FALSE,
   parsedInfo |-> NoInfo, toast |-> "none", edits |-> 0, inflight |-> 0]

\* String.prototype.toUpperCase, on the letters of the typed codes
UpperCase(s) ==
  [i \in 1..Len(s) |->
     CASE s[i] = "b" -> "B" [] s[i] = "w" -> "W" [] s[i] = "x" -> "X"
       [] OTHER -> s[i]]

KeepPriceChar(c) == c \in DigitSet \cup {"."}

\* value.replace(/[^\d.]/g, "")
PriceFilter(s) == SelectSeq(s, KeepPriceChar)

\* what the onChange handler of a column passes to update
Typed(field, text) ==
  CASE field = "code" -> UpperCase(text)
    [] field = "price" -> PriceFilter(text)
    [] OTHER -> text

\* update(id, field, value)
update(id, field, value) ==
  /\ page.edits < MaxEdits
  /\ \E i \in 1..Len(page.rows) : page.rows[i].id = id
  /\ page' = [page EXCEPT
       !.rows = [i \in 1..Len(page.rows) |->
                   IF page.rows[i].id = id
                   THEN [page.rows[i] EXCEPT ![field] = value]
                   ELSE page.rows[i]],
       !.edits = page.edits + 1]
  /\ UNCHANGED <<catalog, r2, req, nreq, alloc, sheet, areas, areq, scan, form>>

addRow ==
  /\ page.edits < MaxEdits
  /\ Len(page.rows) < MaxRows
  /\ page' = [page EXCEPT !.rows = Append(page.rows, EmptyRow(page.nextId)),
                          !.nextId = page.nextId + 1,
                          !.edits = page.edits + 1]
  /\ UNCHANGED <<catalog, r2, req, nreq, alloc, sheet, areas, areq, scan, form>>

\* a removal that does not look at the number of rows
removeRowAlways(id) ==
  LET Kept(row) == row.id # id
  IN  /\ page.edits < MaxEdits
      /\ \E i \in 1..Len(page.rows) : page.rows[i].id = id
      /\ page' = [page EXCEPT !.rows = SelectSeq(page.rows, Kept),
                              !.edits = page.edits + 1]
      /\ UNCHANGED <<catalog, r2, req, nreq, alloc, sheet, areas, areq, scan, form>>

\* removeRow(id), offered by the Remove button of a row
removeRow(id) ==
  LET Kept(row) == row.id # id
  IN  /\ page.edits < MaxEdits
      /\ \E i \in 1..Len(page.rows) : page.rows[i].id = id
      /\ page' = [page EXCEPT
           !.rows = IF Len(page.rows) = 1 THEN page.rows
                    ELSE SelectSeq(page.rows, Kept),
           !.edits = page.edits + 1]
      /\ UNCHANGED <<catalog, r2, req, nreq, alloc, sheet, areas, areq, scan, form>>

\* a row of newRows: p.field || "" under a fresh id
RowOfParsed(p, id) ==
  [id |-> id, code |-> Or(p.code, Empty),
   manufacturerDescription |-> Or(p.manufacturerDescription, Empty),
   price |-> Or(p.price, Empty), imageUrl |-> Or(p.imageUrl, Empty),
   notes |-> Or(p.notes, Empty)]

\* an upload that a drop zone which stays live would start while parsing
handlePdfUploadWhileParsing(isPdf) ==
  /\ page.edits < MaxEdits
  /\ page' = IF ~isPdf
             THEN [page EXCEPT !.toast = "Please upload a PDF file",
                               !.edits = page.edits + 1]
             ELSE [page EXCEPT !.parsing = TRUE, !.parsedInfo = NoInfo,
                               !.inflight = page.inflight + 1,
                               !.edits = page.edits + 1]
  /\ UNCHANGED <<catalog, r2, req, nreq, alloc, sheet, areas, areq, scan, form>>

\* handlePdfUpload up to the fetch: the drop zone and the file input take no
\* file while parsing
handlePdfUpload(isPdf) ==
  /\ page.edits < MaxEdits
  /\ ~page.parsing
  /\ page' = IF ~isPdf
             THEN [page EXCEPT !.toast = "Please upload a PDF file",
                               !.edits = page.edits + 1]
             ELSE [page EXCEPT !.parsing = TRUE, !.parsedInfo = NoInfo,
                               !.inflight = page.inflight + 1,
                               !.edits = page.edits + 1]
  /\ UNCHANGED <<catalog, r2, req, nreq, alloc, sheet, areas, areq, scan, form>>

\* the page after a response whose empty list of products is not told apart
pdfOutcomeNoEmptyCheck(p, res) ==
  IF res.kind = "throws"
  THEN [p EXCEPT !.toast = "Failed to parse PDF", !.parsing = FALSE]
  ELSE IF res.kind = "notok"
  THEN [p EXCEPT !.toast = IF res.error # "" THEN res.error
                           ELSE "Failed to parse PDF",
                 !.parsing = FALSE]
  ELSE IF ~res.hasProducts
  THEN [p EXCEPT !.toast = "No products found in PDF. Check the format.",
                 !.parsing = FALSE]
  ELSE [p EXCEPT
          !.rows = [i \in 1..Len(res.products) |->
                      RowOfParsed(res.products[i], p.nextId + i - 1)],
          !.nextId = p.nextId + Len(res.products),
          !.parsedInfo = [set |-> TRUE, pageCount |-> res.pageCount,
                          productCount |-> Len(res.products)],
          !.toast = "Extracted products from PDF",
          !.parsing = FALSE]

\* handlePdfUpload after the fetch: the page once res has been handled
pdfOutcome(p, res) ==
  IF res.kind = "throws"
  THEN [p EXCEPT !.toast = "Failed to parse PDF", !.parsing = FALSE]
  ELSE IF res.kind = "notok"
  THEN [p EXCEPT !.toast = IF res.error # "" THEN res.error
                           ELSE "Failed to parse PDF",
                 !.parsing = FALSE]
  ELSE IF ~res.hasProducts \/ Len(res.products) = 0
  THEN [p EXCEPT !.toast = "No products found in PDF. Check the format.",
                 !.parsing = FALSE]
  ELSE [p EXCEPT
          !.rows = [i \in 1..Len(res.products) |->
                      RowOfParsed(res.products[i], p.nextId + i - 1)],
          !.nextId = p.nextId + Len(res.products),
          !.parsedInfo = [set |-> TRUE, pageCount |-> res.pageCount,
                          productCount |-> Len(res.products)],
          !.toast = "Extracted products from PDF",
          !.parsing = FALSE]

\* the fetch of the upload settles with res (a rejection or a response)
pdfSettles(res) ==
  /\ page.inflight > 0
  /\ page' = [pdfOutcome(page, res) EXCEPT !.inflight = page.inflight - 1]
  /\ UNCHANGED <<catalog, r2, req, nreq, alloc, sheet, areas, areq, scan, form>>

\* the Clear all button of the banner, shown while parsedInfo is set
clearAll ==
  /\ page.edits < MaxEdits
  /\ page.parsedInfo.set
  /\ page' = [page EXCEPT !.rows = <<EmptyRow(page.nextId)>>,
                          !.nextId = page.nextId + 1,
                          !.parsedInfo = NoInfo,
                          !.edits = page.edits + 1]
  /\ UNCHANGED <<catalog, r2, req, nreq, alloc, sheet, areas, areq, scan, form>>

\* the product handleImport builds from a row
PayloadOf(row) ==
  [NoFields EXCEPT
     !.code = Trim(row.code),
     !.description = Or(Trim(row.manufacturerDescription), Trim(row.code)),
     !.manufacturerDescription = Trim(row.manufacturerDescription),
     !.productDetails = Trim(row.notes),
     !.price = Trim(row.price),
     !.imageUrl = Trim(row.imageUrl),
     !.areaName = Other]

\* a filter that tests the code as typed
HasCodeAsTyped(row) == Truthy(row.code)

\* the filter of handleImport: r.code.trim()
HasCode(row) == Truthy(Trim(row.code))

\* handleImport up to the fetch: the button is disabled while saving
handleImport(session) ==
  LET payload ==
        [i \in 1..Len(SelectSeq(page.rows, HasCode)) |->
           PayloadOf(SelectSeq(page.rows, HasCode)[i])]
  IN  /\ page.edits < MaxEdits
      /\ ~page.saving
      /\ req[1].pc = "idle"
      /\ IF Len(payload) = 0
         THEN /\ page' = [page EXCEPT !.toast = "Add at least one row with Product Code",
                                      !.edits = page.edits + 1]
              /\ UNCHANGED <<req, nreq>>
         ELSE /\ page' = [page EXCEPT !.saving = TRUE, !.edits = page.edits + 1]
              /\ Arrive(1, "bwa", session, [kind |-> "array", products |-> payload])
              /\ nreq' = nreq + 1
      /\ UNCHANGED <<catalog, r2, alloc, sheet, areas, areq, scan, form>>

\* handleImport after the fetch: the response arrives
importSettles ==
  /\ req[1].pc = "done"
  /\ req[1].origin = "bwa"
  /\ page' = [page EXCEPT
       !.toast = IF req[1].status = 200 THEN "Imported products"
                 ELSE IF req[1].status = 401 THEN "Unauthorized"
                 ELSE IF req[1].status = 400 THEN "At least one product is required"
                 ELSE "Failed to save products",
       !.saving = FALSE]
  /\ req' = [req EXCEPT ![1] = IdleReq]
  /\ UNCHANGED <<catalog, r2, nreq, alloc, sheet, areas, areq, scan, form>>

\* handleImport after the fetch: the fetch rejects, the request never arrived
importThrows ==
  /\ req[1].pc = "received"
  /\ req[1].origin = "bwa"
  /\ page' = [page EXCEPT !.toast = "Failed to import", !.saving = FALSE]
  /\ req' = [req EXCEPT ![1] = IdleReq]
  /\ UNCHANGED <<catalog, r2, nreq, alloc, sheet, areas, areq, scan, form>>

\* ------------------------------------------- the product-selection page

\* pdfParseInfo: null, or {found, notFound}
NoParseInfo == [set |-> FALSE, found |-> 0, notFound |-> <<>>]

\* no response body has been read yet
NoData ==
  [kind |-> "none", error |-> "", hasProducts |-> FALSE, products |-> <<>>,
   notFoundCodes |-> <<>>, extractedCodes |-> <<>>]

\* the page after its first render and the effect of that render, which finds
\* the search text too short to fetch; data is the body the last upload
\* read, inflight counts the parse-pdf requests that have not settled and
\* fetches holds the searches that have not settled, oldest first; genSent
\* counts the requests generateDocument has sent and genPending tells that
\* one of them has not settled
SheetInit ==
  [selected |-> <<>>, parsingPdf |-> FALSE, pdfParseInfo |-> NoParseInfo,
   message |-> "none", data |-> NoData, edits |-> 0, inflight |-> 0,
   search |-> Empty, loadingProducts |-> FALSE, products |-> <<>>,
   fetches |-> <<>>, address |-> Empty, generating |-> FALSE,
   genSent |-> 0, genPending |-> FALSE]

\* a product as the API returns it: the id is that of the catalog row
ApiProduct(cat, i) == [id |-> i, code |-> cat[i].code, area |-> cat[i].area]

\* the entry of the selection made from a product
SelectedOf(p) ==
  [id |-> p.id, code |-> p.code, areaName |-> Or(p.area, Other),
   quantity |-> Empty, notes |-> Empty]

IsSelected(prev, id) == \E i \in 1..Len(prev) : prev[i].id = id

\* an add that does not look for the product in the selection
addProductAlways(prev, p) == Append(prev, SelectedOf(p))

\* the updater of addProductToSelected(p), applied to the selection prev
addProductToSelected(prev, p) ==
  IF IsSelected(prev, p.id) THEN prev ELSE Append(prev, SelectedOf(p))

\* for (const product of data.products) addProductToSelected(product)
RECURSIVE AddAll(_, _)
AddAll(prev, products) ==
  IF products = <<>> THEN prev
  ELSE AddAll(addProductToSelected(prev, Head(products)), Tail(products))

\* a toggle that adds the product whether it is selected or not
toggleSelectAdding(p) ==
  /\ sheet.edits < MaxSheetEdits
  /\ sheet' = [sheet EXCEPT !.selected = Append(sheet.selected, SelectedOf(p)),
                            !.edits = sheet.edits + 1]
  /\ UNCHANGED <<catalog, r2, req, nreq, alloc, page, areas, areq, scan, form>>

\* toggleSelect(p), from a search result or from the button of an entry
toggleSelect(p) ==
  LET Others(e) == e.id # p.id
  IN  /\ sheet.edits < MaxSheetEdits
      /\ sheet' = [sheet EXCEPT
           !.selected = IF IsSelected(sheet.selected, p.id)
                        THEN SelectSeq(sheet.selected, Others)
                        ELSE Append(sheet.selected, SelectedOf(p)),
           !.edits = sheet.edits + 1]
      /\ UNCHANGED <<catalog, r2, req, nreq, alloc, page, areas, areq, scan, form>>

\* updateSelected(id, field, value), field being quantity or notes
updateSelected(id, field, value) ==
  /\ sheet.edits < MaxSheetEdits
  /\ IsSelected(sheet.selected, id)
  /\ sheet' = [sheet EXCEPT
       !.selected = [i \in 1..Len(sheet.selected) |->
                       IF sheet.selected[i].id = id
                       THEN [sheet.selected[i] EXCEPT ![field] = value]
                       ELSE sheet.selected[i]],
       !.edits = sheet.edits + 1]
  /\ UNCHANGED <<catalog, r2, req, nreq, alloc, page, areas, areq, scan, form>>

\* the Clear all button of the selection: setSelected([])
clearSelected ==
  /\ sheet.edits < MaxSheetEdits
  /\ sheet.selected # <<>>
  /\ sheet' = [sheet EXCEPT !.selected = <<>>, !.edits = sheet.edits + 1]
  /\ UNCHANGED <<catalog, r2, req, nreq, alloc, page, areas, areq, scan, form>>

\* handlePdfUpload of the selection page up to the fetch: the drop zone and
\* the file input take no file while parsingPdf
sheetHandlePdfUpload(isPdf) ==
  /\ sheet.edits < MaxSheetEdits
  /\ ~sheet.parsingPdf
  /\ sheet' = IF ~isPdf
              THEN [sheet EXCEPT !.message = "Please upload a PDF file",
                                 !.edits = sheet.edits + 1]
              ELSE [sheet EXCEPT !.parsingPdf = TRUE, !.message = "none",
                                 !.pdfParseInfo = NoParseInfo,
                                 !.inflight = sheet.inflight + 1,
                                 !.edits = sheet.edits + 1]
  /\ UNCHANGED <<catalog, r2, req, nreq, alloc, page, areas, areq, scan, form>>

\* an upload whose products replace the selection
sheetPdfOutcomeReplacing(p, res) ==
  IF res.kind = "throws"
  THEN [p EXCEPT !.message = "Failed to parse PDF", !.parsingPdf = FALSE,
                 !.data = NoData]
  ELSE IF res.kind = "notok"
  THEN [p EXCEPT !.message = IF res.error # "" THEN res.error
                             ELSE "Failed to parse PDF",
                 !.parsingPdf = FALSE, !.data = res]
  ELSE IF ~res.hasProducts \/ Len(res.products) = 0
  THEN [p EXCEPT !.message = IF Len(res.notFoundCodes) # 0
                             THEN "No matching products found."
                             ELSE "No product codes found in the PDF.",
                 !.parsingPdf = FALSE, !.data = res]
  ELSE [p EXCEPT
          !.selected = AddAll(<<>>, res.products),
          !.pdfParseInfo = [set |-> TRUE, found |-> Len(res.products),
                            notFound |-> res.notFoundCodes],
          !.message = "Added products from PDF",
          !.parsingPdf = FALSE, !.data = res]

\* handlePdfUpload of the selection page after the fetch
sheetPdfOutcome(p, res) ==
  IF res.kind = "throws"
  THEN [p EXCEPT !.message = "Failed to parse PDF", !.parsingPdf = FALSE,
                 !.data = NoData]
  ELSE IF res.kind = "notok"
  THEN [p EXCEPT !.message = IF res.error # "" THEN res.error
                             ELSE "Failed to parse PDF",
                 !.parsingPdf = FALSE, !.data = res]
  ELSE IF ~res.hasProducts \/ Len(res.products) = 0
  THEN [p EXCEPT !.message = IF Len(res.notFoundCodes) # 0
                             THEN "No matching products found."
                             ELSE "No product codes found in the PDF.",
                 !.parsingPdf = FALSE, !.data = res]
  ELSE [p EXCEPT
          !.selected = AddAll(p.selected, res.products),
          !.pdfParseInfo = [set |-> TRUE, found |-> Len(res.products),
                            notFound |-> res.notFoundCodes],
          !.message = "Added products from PDF",
          !.parsingPdf = FALSE, !.data = res]

\* the fetch of the upload settles with res (a rejection or a response)
sheetPdfSettles(res) ==
  /\ sheet.inflight > 0
  /\ sheet' = [sheetPdfOutcome(sheet, res) EXCEPT !.inflight = sheet.inflight - 1]
  /\ UNCHANGED <<catalog, r2, req, nreq, alloc, page, areas, areq, scan, form>>

\* controller.abort() in the cleanup of the effect: the fetch of the render
\* before will reject with an AbortError
Aborted(fetches) == [i \in 1..Len(fetches) |-> [fetches[i] EXCEPT !.aborted = TRUE]]

Without(seq, i) == SubSeq(seq, 1, i - 1) \o SubSeq(seq, i + 1, Len(seq))

\* setSearch(text) and the effect on [search] of the render it causes: the
\* cleanup of the effect before, then fetchProducts up to its first await
setSearch(text) ==
  /\ sheet.edits < MaxSheetEdits
  /\ text # sheet.search
  /\ sheet' = IF Len(Trim(text)) < 2
              THEN [sheet EXCEPT !.search = text,
                                 !.fetches = Aborted(sheet.fetches),
                                 !.products = <<>>,
                                 !.loadingProducts = FALSE,
                                 !.edits = sheet.edits + 1]
              ELSE [sheet EXCEPT !.search = text,
                                 !.fetches = Append(Aborted(sheet.fetches),
                                                    [q |-> text, aborted |-> FALSE]),
                                 !.loadingProducts = TRUE,
                                 !.edits = sheet.edits + 1]
  /\ UNCHANGED <<catalog, r2, req, nreq, alloc, page, areas, areq, scan, form>>

\* fetchProducts after its await: the i-th search settles, with an AbortError
\* when it was aborted and else with res; finally runs in every case
searchSettles(i, res) ==
  /\ i \in 1..Len(sheet.fetches)
  /\ sheet' = [sheet EXCEPT
       !.fetches = Without(sheet.fetches, i),
       !.products = IF ~sheet.fetches[i].aborted /\ res.kind = "ok"
                    THEN res.products ELSE sheet.products,
       !.message = IF ~sheet.fetches[i].aborted /\ res.kind # "ok"
                   THEN "Failed to fetch products" ELSE sheet.message,
       !.loadingProducts = FALSE]
  /\ UNCHANGED <<catalog, r2, req, nreq, alloc, page, areas, areq, scan, form>>

\* setAddress(e.target.value)
setAddress(text) ==
  /\ sheet.edits < MaxSheetEdits
  /\ text # sheet.address
  /\ sheet' = [sheet EXCEPT !.address = text, !.edits = sheet.edits + 1]
  /\ UNCHANGED <<catalog, r2, req, nreq, alloc, page, areas, areq, scan, form>>

\* a validation that tests the address as typed
validateAsTyped(address, selected) ==
  IF address = Empty THEN "Address is required"
  ELSE IF Len(selected) = 0 THEN "Select at least one product"
  ELSE "none"

\* validate(): the error to show, or none
validate(address, selected) ==
  IF Trim(address) = Empty THEN "Address is required"
  ELSE IF Len(selected) = 0 THEN "Select at least one product"
  ELSE "none"

\* generateDocument of the selection page up to the fetch: the button is
\* disabled while generating
sheetGenerateDocument ==
  LET error == validate(sheet.address, sheet.selected)
  IN  /\ sheet.edits < MaxSheetEdits
      /\ ~sheet.generating
      /\ sheet' = IF error # "none"
                  THEN [sheet EXCEPT !.message = error,
                                     !.edits = sheet.edits + 1]
                  ELSE [sheet EXCEPT !.generating = TRUE, !.message = "none",
                                     !.genSent = sheet.genSent + 1,
                                     !.genPending = TRUE,
                                     !.edits = sheet.edits + 1]
      /\ UNCHANGED <<catalog, r2, req, nreq, alloc, page, areas, areq, scan, form>>

\* a generateDocument that clears the flag after the download alone
sheetGeneratedOnSuccess(p, kind) ==
  [p EXCEPT !.message = IF kind = "ok" THEN "Document generated and downloaded."
                        ELSE "Failed to generate file",
            !.generating = kind # "ok"]

\* the selection page once the generate request has settled with kind
sheetGenerated(p, kind) ==
  [p EXCEPT !.message = IF kind = "ok" THEN "Document generated and downloaded."
                        ELSE "Failed to generate file",
            !.generating = FALSE]

\* generateDocument of the selection page after the fetch: the request
\* settles with a document, an error status or a rejection
sheetGenerateSettles(kind) ==
  /\ sheet.genPending
  /\ sheet' = [sheetGenerated(sheet, kind) EXCEPT !.genPending = FALSE]
  /\ UNCHANGED <<catalog, r2, req, nreq, alloc, page, areas, areq, scan, form>>

\* --------------------- the Catalog Matcher behind parse-pdf (selection)

\* equality of codes that takes no account of case
SameCode(a, b) == UpperCase(a) = UpperCase(b)

HasRow(cat, code) == \E i \in 1..Len(cat) : SameCode(cat[i].code, code)

\* the first row, in insertion order, that holds the code
FirstRow(cat, code) ==
  CHOOSE i \in 1..Len(cat) :
    /\ SameCode(cat[i].code, code)
    /\ \A j \in 1..(i - 1) : ~SameCode(cat[j].code, code)

\* a matcher that reports every code as not found, the matched ones too
CatalogMatcherKeepsFound(allCodes, cat) ==
  LET Found(c) == HasRow(cat, c)
      found == SelectSeq(allCodes, Found)
  IN  [matched |-> [i \in 1..Len(found) |-> ApiProduct(cat, FirstRow(cat, found[i]))],
       notFound |-> allCodes]

\* a matcher that returns the rows in the order of the catalog
CatalogMatcherCatalogOrder(allCodes, cat) ==
  LET Wanted(i) == \E k \in 1..Len(allCodes) : SameCode(cat[i].code, allCodes[k])
      Missing(c) == ~HasRow(cat, c)
      rows == SelectSeq([i \in 1..Len(cat) |-> i], Wanted)
  IN  [matched |-> [i \in 1..Len(rows) |-> ApiProduct(cat, rows[i])],
       notFound |-> SelectSeq(allCodes, Missing)]

\* the codes of an extraction, taken one by one in their order: a code with a
\* row gives that row to matched, a code without one goes to notFound
RECURSIVE CatalogMatcher(_, _)
CatalogMatcher(allCodes, cat) ==
  IF allCodes = <<>> THEN [matched |-> <<>>, notFound |-> <<>>]
  ELSE LET code == Head(allCodes)
           rest == CatalogMatcher(Tail(allCodes), cat)
       IN  IF HasRow(cat, code)
           THEN [rest EXCEPT !.matched =
                   <<ApiProduct(cat, FirstRow(cat, code))>> \o rest.matched]
           ELSE [rest EXCEPT !.notFound = <<code>> \o rest.notFound]

\* the body parse-pdf answers with for an extraction that saw allCodes
MatcherResponse(allCodes, cat) ==
  [kind |-> "ok", error |-> "", hasProducts |-> TRUE,
   products |-> CatalogMatcher(allCodes, cat).matched,
   notFoundCodes |-> CatalogMatcher(allCodes, cat).notFound,
   extractedCodes |-> allCodes]

\* ------------------------------------------ the Record Parser (parse-pdf)

\* the record made from an entry of the document: the code in upper case
RecordOf(e) == [code |-> UpperCase(e.code), text |-> e.text]

\* no document is being parsed
IdleScan == [doc |-> <<>>, pos |-> 0, records |-> <<>>, allCodes |-> <<>>]

\* a parser that keeps the first record of a code
TakeEntryKeepingFirst(sc, e) ==
  LET code == UpperCase(e.code)
      Known(rec) == rec.code = code
  IN  [sc EXCEPT
         !.pos = sc.pos + 1,
         !.allCodes = IF code \in Range(sc.allCodes) THEN sc.allCodes
                      ELSE Append(sc.allCodes, code),
         !.records = IF ~e.full \/ SelectSeq(sc.records, Known) # <<>>
                     THEN sc.records
                     ELSE Append(sc.records, RecordOf(e))]

\* the parser takes the next entry e of the document: its code joins allCodes
\* if it is new; an entry that makes a full record replaces the record of its
\* code where that record stands, or comes last if the code had none
TakeEntry(sc, e) ==
  LET code == UpperCase(e.code)
  IN  [sc EXCEPT
         !.pos = sc.pos + 1,
         !.allCodes = IF code \in Range(sc.allCodes) THEN sc.allCodes
                      ELSE Append(sc.allCodes, code),
         !.records = IF ~e.full THEN sc.records
                     ELSE IF \E i \in 1..Len(sc.records) : sc.records[i].code = code
                     THEN [i \in 1..Len(sc.records) |->
                             IF sc.records[i].code = code THEN RecordOf(e)
                             ELSE sc.records[i]]
                     ELSE Append(sc.records, RecordOf(e))]

\* one step of the parser over its document
ScanEntry ==
  /\ scan.pos < Len(scan.doc)
  /\ scan' = TakeEntry(scan, scan.doc[scan.pos + 1])
  /\ UNCHANGED <<catalog, r2, req, nreq, alloc, page, sheet, areas, areq, form>>

\* ------------------------------------------------ the area endpoint POST

NoAreaBody == [kind |-> "none", name |-> Undef]

\* db counts the calls the request has made to prisma
IdleAreaReq ==
  [pc |-> "idle", session |-> FALSE, body |-> NoAreaBody, name |-> Undef,
   status |-> 0, db |-> 0]

AreaRespond(q, status) == [q EXCEPT !.pc = "done", !.status = status]

\* body?.name?.toString().trim()
AreaNameOf(body) == TrimOpt(body.name)

\* a request reaches the area endpoint
AreaReceive(r, session, body) ==
  /\ areq[r].pc = "idle"
  /\ nreq < MaxRequests
  /\ areq' = [areq EXCEPT ![r] =
                [IdleAreaReq EXCEPT !.pc = "received", !.session = session,
                                    !.body = body]]
  /\ nreq' = nreq + 1
  /\ UNCHANGED <<catalog, r2, req, alloc, page, sheet, areas, scan, form>>

\* the session check, the body and the name check
AreaValidate(r) ==
  LET q == areq[r]
  IN  /\ q.pc = "received"
      /\ areq' = [areq EXCEPT ![r] =
                    IF ~q.session THEN AreaRespond(q, 401)
                    ELSE IF q.body.kind = "badjson" THEN AreaRespond(q, 400)
                    ELSE IF ~Truthy(AreaNameOf(q.body)) THEN AreaRespond(q, 400)
                    ELSE [q EXCEPT !.pc = "find", !.name = AreaNameOf(q.body)]]
      /\ UNCHANGED <<catalog, r2, req, nreq, alloc, page, sheet, areas, scan, form>>

\* await prisma.area.findUnique({where: {name}})
AreaFind(r) ==
  LET q == areq[r]
      q1 == [q EXCEPT !.db = q.db + 1]
  IN  /\ q.pc = "find"
      /\ areq' = [areq EXCEPT ![r] =
                    IF q.name \in Range(areas) THEN AreaRespond(q1, 400)
                    ELSE [q1 EXCEPT !.pc = "create"]]
      /\ UNCHANGED <<catalog, r2, req, nreq, alloc, page, sheet, areas, scan, form>>

\* await prisma.area.create({data: {name}}): name is a unique field, as
\* findUnique takes it for its where, so a name that is taken is rejected
AreaCreate(r) ==
  LET q == areq[r]
      q1 == [q EXCEPT !.db = q.db + 1]
  IN  /\ q.pc = "create"
      /\ IF q.name \in Range(areas)
         THEN /\ areq' = [areq EXCEPT ![r] = AreaRespond(q1, 500)]
              /\ UNCHANGED areas
         ELSE /\ areas' = Append(areas, q.name)
              /\ areq' = [areq EXCEPT ![r] = AreaRespond(q1, 200)]
      /\ UNCHANGED <<catalog, r2, req, nreq, alloc, page, sheet, scan, form>>

\* the store is unreachable: the awaited call rejects
AreaStorageFails(r) ==
  LET q == areq[r]
  IN  /\ q.pc \in {"find", "create"}
      /\ areq' = [areq EXCEPT ![r] = AreaRespond([q EXCEPT !.db = q.db + 1], 500)]
      /\ UNCHANGED <<catalog, r2, req, nreq, alloc, page, sheet, areas, scan, form>>

\* the client takes the response
AreaDeliver(r) ==
  /\ areq[r].pc = "done"
  /\ areq' = [areq EXCEPT ![r] = IdleAreaReq]
  /\ UNCHANGED <<catalog, r2, req, nreq, alloc, page, sheet, areas, scan, form>>

\* ------------------------------------------- the create-schedule form

\* the latest query has not been answered
NoAnswer == [set |-> FALSE, products |-> <<>>]

\* the form after its first render; fetches holds the searches that have not
\* settled, oldest first, latest marking the one for the text in the box, and
\* answer is the list the search for that text was answered with; genSent
\* counts the requests generateDocument has sent, genStage is the await its
\* run is at and genItems the number of products that run works on
FormInit ==
  [searchQuery |-> Empty, searchResults |-> <<>>, selectedProducts |-> <<>>,
   loading |-> FALSE, toast |-> "none", fetches |-> <<>>, answer |-> NoAnswer,
   edits |-> 0, address |-> Empty, generating |-> FALSE, genSent |-> 0,
   genStage |-> "idle", genItems |-> 0]

\* a product as the search returns it
FormProduct(cat, i) == [id |-> i, code |-> cat[i].code, area |-> cat[i].area]

Superseded(fetches) == [i \in 1..Len(fetches) |-> [fetches[i] EXCEPT !.latest = FALSE]]

\* handleSearch(query) up to the fetch, called when the text of the box changes
handleSearch(query) ==
  /\ form.edits < MaxFormEdits
  /\ query # form.searchQuery
  /\ form' = IF Len(query) < 2
             THEN [form EXCEPT !.searchQuery = query,
                               !.searchResults = <<>>,
                               !.fetches = Superseded(form.fetches),
                               !.answer = NoAnswer,
                               !.edits = form.edits + 1]
             ELSE [form EXCEPT !.searchQuery = query,
                               !.loading = TRUE,
                               !.fetches = Append(Superseded(form.fetches),
                                                  [q |-> query, latest |-> TRUE]),
                               !.answer = NoAnswer,
                               !.edits = form.edits + 1]
  /\ UNCHANGED <<catalog, r2, req, nreq, alloc, page, sheet, areas, areq, scan>>

\* handleSearch after the fetch: the i-th search settles with res, a rejection
\* or a body whose products are data.products || []
formSearchSettles(i, res) ==
  /\ i \in 1..Len(form.fetches)
  /\ form' = [form EXCEPT
       !.fetches = SubSeq(form.fetches, 1, i - 1)
                     \o SubSeq(form.fetches, i + 1, Len(form.fetches)),
       !.searchResults = IF res.kind = "ok" THEN res.products
                         ELSE form.searchResults,
       !.toast = IF res.kind = "ok" THEN form.toast
                 ELSE "Failed to search products",
       !.answer = IF form.fetches[i].latest /\ res.kind = "ok"
                  THEN [set |-> TRUE, products |-> res.products]
                  ELSE form.answer,
       !.loading = FALSE]
  /\ UNCHANGED <<catalog, r2, req, nreq, alloc, page, sheet, areas, areq, scan>>

\* the entry of the selection made from a product
FormSelectedOf(p) ==
  [id |-> p.id, code |-> p.code, area |-> p.area, quantity |-> 1,
   areaDescription |-> p.area, notes |-> Empty]

\* addProduct(product), from the Add button of a search result
addProduct(product) ==
  /\ form.edits < MaxFormEdits
  /\ form' = IF \E i \in 1..Len(form.selectedProducts) :
                  form.selectedProducts[i].id = product.id
             THEN [form EXCEPT !.toast = "Product already added",
                               !.edits = form.edits + 1]
             ELSE [form EXCEPT
                     !.selectedProducts =
                        Append(form.selectedProducts, FormSelectedOf(product)),
                     !.toast = "Product added",
                     !.edits = form.edits + 1]
  /\ UNCHANGED <<catalog, r2, req, nreq, alloc, page, sheet, areas, areq, scan>>

\* removeProduct(id), from the Remove button of an entry
removeProduct(id) ==
  LET Kept(p) == p.id # id
  IN  /\ form.edits < MaxFormEdits
      /\ \E i \in 1..Len(form.selectedProducts) : form.selectedProducts[i].id = id
      /\ form' = [form EXCEPT
           !.selectedProducts = SelectSeq(form.selectedProducts, Kept),
           !.edits = form.edits + 1]
      /\ UNCHANGED <<catalog, r2, req, nreq, alloc, page, sheet, areas, areq, scan>>

\* updateProduct(id, field, value)
updateProduct(id, field, value) ==
  /\ form.edits < MaxFormEdits
  /\ \E i \in 1..Len(form.selectedProducts) : form.selectedProducts[i].id = id
  /\ form' = [form EXCEPT
       !.selectedProducts =
          [i \in 1..Len(form.selectedProducts) |->
             IF form.selectedProducts[i].id = id
             THEN [form.selectedProducts[i] EXCEPT ![field] = value]
             ELSE form.selectedProducts[i]],
       !.edits = form.edits + 1]
  /\ UNCHANGED <<catalog, r2, req, nreq, alloc, page, sheet, areas, areq, scan>>

\* parseInt(string): the integer the string starts with, after leading white
\* space and a sign; what follows the digits is ignored
parseInt(s) ==
  LET lead == {i \in 1..Len(s) : s[i] # WS}
      t == IF lead = {} THEN Empty
           ELSE SubSeq(s, CHOOSE i \in lead : \A j \in lead : i <= j, Len(s))
      signed == t # Empty /\ t[1] \in {"-", "+"}
      u == IF signed THEN Tail(t) ELSE t
      n == DigitRun(u)
      v == DigitsValue(SubSeq(u, 1, n))
  IN  IF n = 0 THEN NaN
      ELSE IF signed /\ t[1] = "-" THEN Num(0 - v) ELSE Num(v)

\* what the onChange handler of the quantity input passes to updateProduct:
\* parseInt(e.target.value) || 1
QuantityTyped(text) ==
  LET n == parseInt(text)
  IN  IF n.nan \/ n.val = 0 THEN 1 ELSE n.val

\* setAddress(e.target.value) of the form
formSetAddress(text) ==
  /\ form.edits < MaxFormEdits
  /\ text # form.address
  /\ form' = [form EXCEPT !.address = text, !.edits = form.edits + 1]
  /\ UNCHANGED <<catalog, r2, req, nreq, alloc, page, sheet, areas, areq, scan>>

\* generateDocument of the form up to the fetch of the template: the button
\* is disabled while generating, without an address and without a product
formGenerateDocument ==
  /\ form.edits < MaxFormEdits
  /\ ~form.generating
  /\ form.address # Empty
  /\ Len(form.selectedProducts) # 0
  /\ form' = IF Trim(form.address) = Empty
             THEN [form EXCEPT !.toast = "Address is required",
                               !.edits = form.edits + 1]
             ELSE IF Len(form.selectedProducts) = 0
             THEN [form EXCEPT !.toast = "Add at least one product",
                               !.edits = form.edits + 1]
             ELSE [form EXCEPT !.generating = TRUE,
                               !.genSent = form.genSent + 1,
                               !.genStage = "template",
                               !.genItems = Len(form.selectedProducts),
                               !.edits = form.edits + 1]
  /\ UNCHANGED <<catalog, r2, req, nreq, alloc, page, sheet, areas, areq, scan>>

\* the template has arrived: one image request goes out for each product
formTemplateArrives ==
  /\ form.genStage = "template"
  /\ form' = [form EXCEPT !.genStage = "images",
                          !.genSent = form.genSent + form.genItems]
  /\ UNCHANGED <<catalog, r2, req, nreq, alloc, page, sheet, areas, areq, scan>>

\* the form once generateDocument has ended, with the document or a throw
formGenerated(f, kind) ==
  [f EXCEPT !.toast = IF kind = "ok" THEN "Document generated successfully!"
                      ELSE "Failed to generate document",
            !.generating = FALSE]

\* generateDocument of the form ends: a fetch rejects or the rendering
\* throws at either await, or the images arrive and the document is saved
formGenerateSettles(kind) ==
  /\ form.genStage # "idle"
  /\ kind = "ok" => form.genStage = "images"
  /\ form' = [formGenerated(form, kind) EXCEPT !.genStage = "idle"]
  /\ UNCHANGED <<catalog, r2, req, nreq, alloc, page, sheet, areas, areq, scan>>

\* ------------------------------------------- concurrent imports: Spec

\* a row of the table as the endpoint would have stored it
SeedRow(code, category) ==
  RowOf([NoFields EXCEPT !.description = <<"Seed">>], category, code, PlaceholderImage)

InitCatalogs ==
  {<<>>,
   <<SeedRow(<<"A", "0", "0", "1">>, <<"Kitchen">>)>>}

Tap == [NoFields EXCEPT !.category = <<"Kitchen">>, !.description = <<"Tap">>]

Sink ==
  [NoFields EXCEPT !.category = <<" ", "Kitchen">>, !.description = <<"Sink">>,
                   !.image = <<"<base64>">>]

Mat == [NoFields EXCEPT !.description = <<"Mat">>, !.price = <<"4", "5">>]

ClientProducts == {Tap, Sink, Mat}

\* the bodies a client may send: each array holds at most one product
ClientBodies ==
  {[kind |-> "badjson", products |-> <<>>],
   [kind |-> "noarray", products |-> <<>>],
   [kind |-> "array", products |-> <<>>]}
  \cup {[kind |-> "array", products |-> <<p>>] : p \in ClientProducts}

Init ==
  /\ catalog \in InitCatalogs
  /\ r2 = {}
  /\ req = [r \in Slots |-> IdleReq]
  /\ nreq = 0
  /\ alloc = [n |-> 0, last |-> Null]
  /\ page = PageInit
  /\ sheet = SheetInit
  /\ areas = <<>>
  /\ areq = [r \in Slots |-> IdleAreaReq]
  /\ scan = IdleScan
  /\ form = FormInit

Next ==
  \E r \in Slots :
    \/ \E session \in BOOLEAN, body \in ClientBodies : Receive(r, session, body)
    \/ Validate(r)
    \/ Alloc(r)
    \/ Upload(r)
    \/ Create(r)
    \/ StorageFails(r)
    \/ Deliver(r)

Spec == Init /\ [][Next]_vars

\* ------------------------------------------- sequential imports: SpecSeq

\* one product per request, always under the prefix of Kitchen
SeqBody == [kind |-> "array", products |-> <<Tap>>]

\* the code the n-th import of the series was stored with
SeqCode(n) == <<"A">> \o FormatNumber(n)

\* the catalog once n imports of the series have been answered: a row of
\* another prefix, then the rows of the imports in the order of their creation
SeqCatalog(n) ==
  <<SeedRow(<<"B", "0", "0", "7">>, <<"Bedroom">>)>>
  \o [i \in 1..n |-> RowOf(Tap, <<"Kitchen">>, SeqCode(i), PlaceholderImage)]

\* a series of imports that began on a catalog with no code under the prefix
\* of Kitchen, picked up after any number n of its imports; SeqCatalog(n + 1)
\* is also the state one import leads to from SeqCatalog(n) (SeqSeriesIsReached)
InitSeq ==
  \E n \in 0..(MaxSeq - 1) :
    /\ catalog = SeqCatalog(n)
    /\ r2 = {}
    /\ req = [r \in Slots |-> IdleReq]
    /\ nreq = n
    /\ alloc = [n |-> n, last |-> IF n = 0 THEN Null ELSE SeqCode(n)]
    /\ page = PageInit
    /\ sheet = SheetInit
    /\ areas = <<>>
    /\ areq = [r \in Slots |-> IdleAreaReq]
    /\ scan = IdleScan
  /\ form = FormInit

\* the next import is sent once the one before it has been answered
ReceiveSeq ==
  /\ req[1].pc = "idle"
  /\ nreq < MaxSeq
  /\ Arrive(1, "client", TRUE, SeqBody)
  /\ nreq' = nreq + 1
  /\ UNCHANGED <<catalog, r2, alloc, page, sheet, areas, areq, scan, form>>

NextSeq ==
  \/ ReceiveSeq
  \/ Validate(1)
  \/ Alloc(1)
  \/ Create(1)
  \/ Deliver(1)

SpecSeq == InitSeq /\ [][NextSeq]_vars

\* ------------------------------- one import on any catalog: SpecAlloc

A001 == <<"A", "0", "0", "1">>
A999 == <<"A", "9", "9", "9">>
A1000 == <<"A", "1", "0", "0", "0">>

\* codes a catalog may hold: allocated ones, of three and of four digits, and
\* ones entered by other means (no suffix, a letter suffix, a vendor code)
CodeUniverse ==
  {A001, A999, A1000, <<"A">>, <<"A", "x">>,
   <<"B", "0", "0", "1">>, <<"B", "W", "-", "0", "0", "1">>, <<"Z", "0", "0", "1">>}

RECURSIVE SeqOfCodes(_)
SeqOfCodes(S) ==
  IF S = {} THEN <<>>
  ELSE LET least == CHOOSE c \in S : \A d \in S : d = c \/ StrLess(c, d)
       IN  <<SeedRow(least, Other)>> \o SeqOfCodes(S \ {least})

\* category labels a client may send
LabelInputs ==
  OwnLabels
  \cup {Undef, Empty, <<" ">>, <<" ", "Kitchen", " ">>, <<"Patio", " ">>,
        <<"kitchen">>, <<"Garage">>, <<"Living", " ", " ", "Room">>,
        <<"constructor">>, <<"toString">>}

InitAlloc ==
  /\ catalog \in {SeqOfCodes(S) : S \in SUBSET CodeUniverse}
  /\ r2 = {}
  /\ req = [r \in Slots |-> IdleReq]
  /\ nreq = 0
  /\ alloc = [n |-> 0, last |-> Null]
  /\ page = PageInit
  /\ sheet = SheetInit
  /\ areas = <<>>
  /\ areq = [r \in Slots |-> IdleAreaReq]
  /\ scan = IdleScan
  /\ form = FormInit

\* the only request of the behaviour: one product with the given label
ReceiveAlloc(label) ==
  /\ req[1].pc = "idle"
  /\ nreq = 0
  /\ Arrive(1, "client", TRUE,
            [kind |-> "array",
             products |-> <<[NoFields EXCEPT !.category = label,
                                             !.description = <<"Tap">>]>>])
  /\ nreq' = nreq + 1
  /\ UNCHANGED <<catalog, r2, alloc, page, sheet, areas, areq, scan, form>>

NextAlloc ==
  \/ \E label \in LabelInputs : ReceiveAlloc(label)
  \/ Validate(1)
  \/ Alloc(1)
  \/ Create(1)
  \/ Deliver(1)

SpecAlloc == InitAlloc /\ [][NextAlloc]_vars

\* ------------------------------------ the page and the endpoint: SpecBwa

Z001 == <<"Z", "0", "0", "1">>

\* what the operator may type into a column
TypedInputs(field) ==
  CASE field = "code" -> {<<"b", "w", "-", "0", "0", "1">>, <<" ">>}
    [] field = "manufacturerDescription" -> {<<" ", "Porcelain tile">>}
    [] field = "price" ->
         {<<"9", "9", ".", "9", "9", ".", "9">>,
          <<"$", "1", ",", "2", "3", "4", ".", "5", "0">>,
          <<"4", "5", ".", "0", "0">>,
          <<".">>, <<"x">>}
    [] field = "imageUrl" -> {<<"https://img.example/1.jpg">>}
    [] field = "notes" -> {<<"fragile">>}

Columns == {"code", "manufacturerDescription", "price", "imageUrl", "notes"}

\* a product of the parse-pdf response
Parsed(code, price) ==
  [code |-> code, manufacturerDescription |-> <<"Porcelain tile">>,
   price |-> price, imageUrl |-> Undef, notes |-> Undef]

\* how the fetch of an upload may settle
PdfResponses ==
  {[kind |-> "throws", error |-> "", hasProducts |-> FALSE, products |-> <<>>,
    pageCount |-> 0],
   [kind |-> "notok", error |-> "", hasProducts |-> FALSE, products |-> <<>>,
    pageCount |-> 0],
   [kind |-> "notok", error |-> "No PDF file provided", hasProducts |-> FALSE,
    products |-> <<>>, pageCount |-> 0],
   [kind |-> "ok", error |-> "", hasProducts |-> FALSE, products |-> <<>>,
    pageCount |-> 1],
   [kind |-> "ok", error |-> "", hasProducts |-> TRUE, products |-> <<>>,
    pageCount |-> 0],
   [kind |-> "ok", error |-> "", hasProducts |-> TRUE,
    products |-> <<Parsed(<<"B", "W", "-", "0", "0", "1">>, <<"4", "5">>)>>,
    pageCount |-> 1],
   [kind |-> "ok", error |-> "", hasProducts |-> TRUE,
    products |-> <<Parsed(<<"B", "W", "-", "0", "0", "1">>, <<"4", "5">>),
                   Parsed(Undef, Undef)>>,
    pageCount |-> 2]}

InitBwa ==
  /\ catalog = <<SeedRow(Z001, Other)>>
  /\ r2 = {}
  /\ req = [r \in Slots |-> IdleReq]
  /\ nreq = 0
  /\ alloc = [n |-> 0, last |-> Null]
  /\ page = PageInit
  /\ sheet = SheetInit
  /\ areas = <<>>
  /\ areq = [r \in Slots |-> IdleAreaReq]
  /\ scan = IdleScan
  /\ form = FormInit

NextBwa ==
  \/ \E id \in 1..MaxRows, field \in Columns :
       \E text \in TypedInputs(field) : update(id, field, Typed(field, text))
  \/ addRow
  \/ \E id \in 1..MaxRows : removeRow(id)
  \/ \E session \in BOOLEAN : handleImport(session)
  \/ importSettles
  \/ importThrows
  \/ Validate(1)
  \/ Alloc(1)
  \/ Create(1)
  \/ StorageFails(1)

SpecBwa == InitBwa /\ [][NextBwa]_vars

\* ------------------------- uploads, the table and the import: SpecUpload

\* the operator uploads files, edits the codes of the table and imports it
NextUpload ==
  \/ \E i \in 1..Len(page.rows) :
       \E text \in TypedInputs("code") :
         update(page.rows[i].id, "code", Typed("code", text))
  \/ addRow
  \/ \E i \in 1..Len(page.rows) : removeRow(page.rows[i].id)
  \/ \E isPdf \in BOOLEAN : handlePdfUpload(isPdf)
  \/ \E res \in PdfResponses : pdfSettles(res)
  \/ clearAll
  \/ \E session \in BOOLEAN : handleImport(session)
  \/ importSettles
  \/ importThrows
  \/ Validate(1)
  \/ Alloc(1)
  \/ Create(1)

SpecUpload == InitBwa /\ [][NextUpload]_vars

\* ------------------------------ one import of several products: SpecBatch

\* how many products the request may carry
MaxBatch == 3

\* a product whose category names a member every object inherits
Odd ==
  [NoFields EXCEPT !.category = <<"constructor">>, !.description = <<"Odd">>]

BatchBodies ==
  {[kind |-> "array", products |-> products] :
     products \in UNION {[1..n -> {Tap, Sink, Mat, Odd}] : n \in 1..MaxBatch}}

\* the catalogs of Spec, and one whose greatest code under A has no number
BatchCatalogs ==
  InitCatalogs
  \cup {<<SeedRow(A001, <<"Kitchen">>), SeedRow(<<"A", "x">>, <<"Kitchen">>)>>}

InitBatch ==
  /\ catalog \in BatchCatalogs
  /\ r2 = {}
  /\ req = [r \in Slots |-> IdleReq]
  /\ nreq = 0
  /\ alloc = [n |-> 0, last |-> Null]
  /\ page = PageInit
  /\ sheet = SheetInit
  /\ areas = <<>>
  /\ areq = [r \in Slots |-> IdleAreaReq]
  /\ scan = IdleScan
  /\ form = FormInit

\* the only request of the behaviour
ReceiveBatch(body) ==
  /\ req[1].pc = "idle"
  /\ nreq = 0
  /\ Arrive(1, "client", TRUE, body)
  /\ nreq' = nreq + 1
  /\ UNCHANGED <<catalog, r2, alloc, page, sheet, areas, areq, scan, form>>

NextBatch ==
  \/ \E body \in BatchBodies : ReceiveBatch(body)
  \/ Validate(1)
  \/ Alloc(1)
  \/ Upload(1)
  \/ Create(1)
  \/ StorageFails(1)
  \/ Deliver(1)

SpecBatch == InitBatch /\ [][NextBatch]_vars

\* --------------------------- requests to both endpoints: SpecGuard

\* the bodies a client may send to the area endpoint
AreaBodies ==
  {[kind |-> "badjson", name |-> Undef],
   [kind |-> "json", name |-> Undef],
   [kind |-> "json", name |-> Null],
   [kind |-> "json", name |-> <<" ">>],
   [kind |-> "json", name |-> <<"Deck">>],
   [kind |-> "json", name |-> <<" ", "Deck">>]}

\* imports are served one at a time, area requests in every slot
NextGuard ==
  \/ \E session \in BOOLEAN, body \in ClientBodies : Receive(1, session, body)
  \/ Validate(1)
  \/ Alloc(1)
  \/ Upload(1)
  \/ Create(1)
  \/ StorageFails(1)
  \/ Deliver(1)
  \/ \E r \in Slots :
       \/ \E session \in BOOLEAN, body \in AreaBodies : AreaReceive(r, session, body)
       \/ AreaValidate(r)
       \/ AreaFind(r)
       \/ AreaCreate(r)
       \/ AreaStorageFails(r)
       \/ AreaDeliver(r)

SpecGuard == Init /\ [][NextGuard]_vars

\* ------------------------ uploads to the selection page: SpecSheet

\* how many codes an extraction may hold
MaxCodes == 3

BW001 == <<"B", "W", "-", "0", "0", "1">>
BW002 == <<"B", "W", "-", "0", "0", "2">>
BW003 == <<"B", "W", "-", "0", "0", "3">>
bw001 == <<"b", "w", "-", "0", "0", "1">>

\* an extraction holds each of its codes once, in the order of the document
ExtractedInputs ==
  {codes \in UNION {[1..n -> {BW001, BW002, BW003, bw001}] : n \in 0..MaxCodes} :
     \A i, j \in 1..Len(codes) : codes[i] = codes[j] => i = j}

\* catalogs: none of the codes, some in another order than the document's,
\* and one whose two rows differ in case alone
SheetCatalogs ==
  {<<>>,
   <<SeedRow(BW001, Other)>>,
   <<SeedRow(BW002, Other), SeedRow(BW001, <<"Kitchen">>)>>,
   <<SeedRow(BW001, Other), SeedRow(bw001, Other)>>,
   <<SeedRow(BW003, Other), SeedRow(A001, <<"Kitchen">>), SeedRow(BW001, Other)>>}

\* what parse-pdf answers on each catalog for each extraction
MatcherResponses ==
  [cat \in SheetCatalogs |-> {MatcherResponse(codes, cat) : codes \in ExtractedInputs}]

\* how the fetch of an upload to the selection page may settle
SheetResponses(cat) ==
  {[NoData EXCEPT !.kind = "throws"],
   [NoData EXCEPT !.kind = "notok"],
   [NoData EXCEPT !.kind = "notok", !.error = "No PDF file provided"],
   [NoData EXCEPT !.kind = "ok"]}
  \cup MatcherResponses[cat]

InitSheet ==
  /\ catalog \in SheetCatalogs
  /\ r2 = {}
  /\ req = [r \in Slots |-> IdleReq]
  /\ nreq = 0
  /\ alloc = [n |-> 0, last |-> Null]
  /\ page = PageInit
  /\ sheet = SheetInit
  /\ areas = <<>>
  /\ areq = [r \in Slots |-> IdleAreaReq]
  /\ scan = IdleScan
  /\ form = FormInit

NextSheet ==
  \/ \E i \in 1..Len(catalog) : toggleSelect(ApiProduct(catalog, i))
  \/ \E i \in 1..Len(sheet.selected) :
       \/ updateSelected(sheet.selected[i].id, "quantity", <<"2">>)
       \/ updateSelected(sheet.selected[i].id, "notes", <<"fragile">>)
  \/ clearSelected
  \/ \E isPdf \in BOOLEAN : sheetHandlePdfUpload(isPdf)
  \/ \E res \in SheetResponses(catalog) : sheetPdfSettles(res)

SpecSheet == InitSheet /\ [][NextSheet]_vars

\* ------------------------------------ the parser on a document: SpecParse

\* how many entries a document may hold
MaxDoc == 3

\* an entry of a document: a code token, whether the lines after it make a
\* full record of it, and the text of that record
Entries ==
  [code : {BW001, bw001, BW002}, full : BOOLEAN,
   text : {<<"Porcelain tile">>, <<"Tapware">>}]

Documents == UNION {[1..n -> Entries] : n \in 0..MaxDoc}

InitParse ==
  /\ catalog = <<>>
  /\ r2 = {}
  /\ req = [r \in Slots |-> IdleReq]
  /\ nreq = 0
  /\ alloc = [n |-> 0, last |-> Null]
  /\ page = PageInit
  /\ sheet = SheetInit
  /\ areas = <<>>
  /\ areq = [r \in Slots |-> IdleAreaReq]
  /\ scan \in {[IdleScan EXCEPT !.doc = doc] : doc \in Documents}
  /\ form = FormInit

NextParse == ScanEntry

SpecParse == InitParse /\ [][NextParse]_vars

\* ================================================================= claims

IsPrefixOf(a, b) == Len(a) <= Len(b) /\ SubSeq(b, 1, Len(a)) = a

\* the request passed the checks and no awaited call was made to fail
Served(q) ==
  /\ q.pc = "done"
  /\ q.session
  /\ q.body.kind = "array"
  /\ Len(q.body.products) > 0
  /\ ~q.fault

PrefixesOf(q) ==
  {PrefixOf(CategoryOf(q.body.products[i])) : i \in 1..Len(q.body.products)}

\* C1: when the import requests in flight all target one category prefix,
\* under every interleaving each of them stores all its products, and the
\* stored rows have pairwise distinct codes.
C1_ConcurrentImportsAllStoredDistinct ==
  (/\ \A r \in Slots : Served(req[r])
   /\ \E pf \in {<<"A">>, <<"Z">>} : \A r \in Slots : PrefixesOf(req[r]) = {pf})
  => /\ \A r \in Slots :
          /\ req[r].status = 200
          /\ Len(req[r].saved) = Len(req[r].body.products)
     /\ Cardinality(CodesOf(catalog)) = Len(catalog)

\* C4: an import whose create hit a taken code allocated again before it
\* was failed; the failure is answered only after more than one allocation.
C4_ConflictIsRetried ==
  \A r \in Slots :
    (req[r].pc = "done" /\ req[r].conflict) => req[r].tries > 1

\* C8: every row that was in the catalog when a request arrived is still
\* there, at the same place and with the same fields, while the request is
\* served and after it is answered, whatever the answer.
C8_ExistingRowsUntouched ==
  \A r \in Slots : req[r].pc # "idle" => IsPrefixOf(req[r].before, catalog)

\* C8 happens: a request that found rows in the catalog was answered 500
\* after another request, answered 200, had added a row
C8_Witness ==
  \E r, o \in Slots :
    /\ req[r].pc = "done" /\ req[r].status = 500
    /\ Len(req[r].before) > 0
    /\ Len(catalog) > Len(req[r].before)
    /\ req[o].pc = "done" /\ req[o].status = 200
    /\ Len(req[o].saved) = 1

\* the code the i-th import under a prefix is to get: prefix001, prefix002, ...
ExpectedCode(prefix, i) ==
  prefix
  \o (IF i < 10 THEN <<"0", "0">> ELSE IF i < 100 THEN <<"0">> ELSE <<>>)
  \o NatToString(i)

\* C2: the i-th of a series of sequential imports under one prefix, from a
\* catalog with no code under it, is stored with the code prefix followed by
\* i padded to three digits.
C2_SequentialCodes ==
  req[1].pc = "done"
  => /\ req[1].status = 200
     /\ Len(req[1].saved) = 1
     /\ req[1].saved[1].code = ExpectedCode(<<"A">>, nreq)

\* the numeric suffix of a code of a one-letter prefix
SuffixNumber(code) == OrZero(ToNumber(SliceFrom(code, 1)))

\* every catalog the series is picked up at is the one its imports lead to
SeqSeriesIsReached ==
  [][catalog' # catalog => catalog' = SeqCatalog(nreq)]_vars

\* C5: in a series of sequential imports under one prefix, the suffix of
\* each allocated code is one more than the suffix allocated just before.
C5_SuffixesIncreaseByOne ==
  [][(alloc'.n = alloc.n + 1 /\ alloc.n >= 1)
     => SuffixNumber(alloc'.last) = SuffixNumber(alloc.last) + 1]_vars

\* C3: with no other allocation running, the code nextCodeForPrefix returns
\* is the code of no row of the catalog, whatever the catalog holds.
C3_AllocatedCodeIsFree ==
  req[1].pc = "create" => req[1].code \notin CodesOf(catalog)

\* C6: when the incremented number needs more than three digits, the code is
\* the prefix followed by all the digits of that number, and the allocation
\* does not fail.
C6_NumberIsWidened ==
  (req[1].tries = 1 /\ req[1].prefix # Inherited
   /\ CurrentNumber(req[1].before, req[1].prefix) + 1 > 999)
  => LET d == SliceFrom(req[1].code, Len(req[1].prefix))
     IN  /\ req[1].pc = "create" \/ (req[1].pc = "done" /\ req[1].code # Undef)
         /\ StartsWith(req[1].code, req[1].prefix)
         /\ Len(d) > 3
         /\ AllDigits(d)
         /\ d[1] # "0"
         /\ DigitsValue(d) = CurrentNumber(req[1].before, req[1].prefix) + 1

\* C6 happens: the greatest code was A999 and A1000 was allocated
C6_Witness ==
  /\ req[1].pc = "create"
  /\ A999 \in CodesOf(catalog)
  /\ A1000 \notin CodesOf(catalog)
  /\ req[1].code = A1000

EightLetters ==
  {<<"A">>, <<"B">>, <<"C">>, <<"D">>, <<"E">>, <<"F">>, <<"G">>, <<"Z">>}

\* the prefix the claim gives a label
ClaimedPrefix(label) ==
  LET t == IF IsStr(label) THEN Trim(label) ELSE Empty
  IN  CASE t = <<"Kitchen">> -> <<"A">>
        [] t = <<"Bathroom">> -> <<"E">>
        [] t = <<"Bedroom">> -> <<"B">>
        [] t = <<"Living", " ", "Room">> -> <<"C">>
        [] t = <<"Laundry">> -> <<"F">>
        [] t = <<"Balcony">> -> <<"G">>
        [] t = <<"Patio">> -> <<"D">>
        [] OTHER -> <<"Z">>

\* C7: the prefix of an imported product depends on its trimmed category
\* label only: the configured letter for the eight configured labels, Z for
\* every other label; it is always one of the eight letters.
C7_PrefixOfLabel ==
  req[1].tries > 0
  => /\ req[1].prefix = ClaimedPrefix(req[1].body.products[req[1].idx].category)
     /\ req[1].prefix \in EightLetters

Dots(s) == Cardinality({i \in 1..Len(s) : s[i] = "."})

\* C9: a price with more than one decimal point is stored as null, not as a
\* truncated number, and the price typed as $1,234.50 is stored as 1234.50.
C9_PriceNormalization ==
  \A i \in 1..Len(req[1].saved) :
    LET price == req[1].body.products[i].price
    IN  req[1].origin = "bwa"
        => /\ Dots(price) > 1 => req[1].saved[i].price = PriceNull
           /\ price = <<"1", "2", "3", "4", ".", "5", "0">>
              => req[1].saved[i].price = PriceNum(FALSE, 1234, <<"5">>)

\* a field of the record and the field of the row agree: the same text, or
\* both absent
Carried(sent, stored) ==
  IF Truthy(sent) THEN stored = sent ELSE stored \in {Null, Undef, Empty}

\* C10: the row created for a record the page sent carries the record's
\* category, description, manufacturerDescription, productDetails, price and
\* imageUrl, under the code allocated for it.
C10_RowCarriesRecord ==
  \A i \in 1..Len(req[1].saved) :
    LET rec == req[1].body.products[i]
        row == req[1].saved[i]
    IN  req[1].origin = "bwa"
        => /\ row.area = rec.areaName
           /\ row.description = rec.description
           /\ Carried(rec.manufacturerDescription, row.manufacturerDescription)
           /\ Carried(rec.productDetails, row.productDetails)
           /\ Truthy(rec.price) \/ row.price = PriceNull
           /\ Truthy(rec.imageUrl) => row.imageUrl = rec.imageUrl
           /\ StartsWith(row.code, <<"Z">>)


\* ------------------------------------------------ the page: C11, C12

NoRowHasCode == \A i \in 1..Len(page.rows) : Trim(page.rows[i].code) = Empty

\* C11: every product the BWA page sends to the import endpoint has a code
\* that is not empty: an import sends one product for each row whose trimmed
\* code is not empty and none for the other rows, and when no row has a code
\* it sends no request and shows the error.
C11_NoEmptyCodeIsSent ==
  /\ [](req[1].origin = "bwa" =>
          /\ Len(req[1].body.products) >= 1
          /\ \A i \in 1..Len(req[1].body.products) :
                Truthy(req[1].body.products[i].code))
  /\ [][(\E session \in BOOLEAN : handleImport(session)) =>
          IF NoRowHasCode
          THEN /\ req' = req
               /\ page'.toast = "Add at least one row with Product Code"
          ELSE /\ req'[1].pc = "received"
               /\ Len(req'[1].body.products) =
                    Cardinality({i \in 1..Len(page.rows) :
                                   Trim(page.rows[i].code) # Empty})]_vars

\* an import in flight that left a row with a blank code out
C11_Witness ==
  /\ req[1].origin = "bwa"
  /\ req[1].pc = "received"
  /\ Len(page.rows) = 2
  /\ Len(req[1].body.products) = 1
  /\ \E i \in 1..2 : page.rows[i].code = <<" ">>

\* the upload brought no product: no response, a response that is not OK, no
\* list of products or an empty one
Failed(res) == res.kind # "ok" \/ ~res.hasProducts \/ Len(res.products) = 0

\* C12: when the fetch of an upload settles with a failure or with no product,
\* the page shows the error (for no product: no products found), the rows stay
\* as they are and parsedInfo stays null; with one product or more the rows
\* are replaced by one row for each product.
C12_FailedUploadKeepsRows ==
  [][\A res \in PdfResponses : pdfSettles(res) =>
       /\ ~page'.parsing
       /\ IF Failed(res)
          THEN /\ page'.rows = page.rows
               /\ page'.parsedInfo = NoInfo
               /\ page'.toast =
                    IF res.kind = "ok"
                    THEN "No products found in PDF. Check the format."
                    ELSE IF res.kind = "notok" /\ res.error # "" THEN res.error
                    ELSE "Failed to parse PDF"
          ELSE /\ Len(page'.rows) = Len(res.products)
               /\ \A i \in 1..Len(res.products) :
                    page'.rows[i].code = Or(res.products[i].code, Empty)
               /\ page'.parsedInfo.set]_vars

\* an upload that found no product has left a table with a code in it alone
C12_Witness ==
  /\ page.toast = "No products found in PDF. Check the format."
  /\ ~page.parsing
  /\ page.parsedInfo = NoInfo
  /\ Len(page.rows) = 2
  /\ page.rows[1].code = <<"B", "W", "-", "0", "0", "1">>


\* ------------------------------------- the selection page: C13, C14, C17

\* C13: the matched products and the notFound codes the selection page
\* receives partition the codes of the extraction: every code is matched or
\* is in notFound and never both, and matched.length + notFound.length is
\* the number of distinct codes; the found and notFound the page keeps add up
\* to it too.
C13_MatcherPartitions ==
  (sheet.data.kind = "ok" /\ sheet.data.hasProducts) =>
    LET d == sheet.data
        Matched(c) == \E i \in 1..Len(d.products) : SameCode(d.products[i].code, c)
        NotFound(c) == \E i \in 1..Len(d.notFoundCodes) : d.notFoundCodes[i] = c
        distinct == Cardinality(Range(d.extractedCodes))
    IN  /\ \A c \in Range(d.extractedCodes) : Matched(c) # NotFound(c)
        /\ Len(d.products) + Len(d.notFoundCodes) = distinct
        /\ Range(d.notFoundCodes) \subseteq Range(d.extractedCodes)
        /\ \A i \in 1..Len(d.products) :
             \E c \in Range(d.extractedCodes) : SameCode(d.products[i].code, c)
        /\ sheet.pdfParseInfo.set =>
             sheet.pdfParseInfo.found + Len(sheet.pdfParseInfo.notFound) = distinct

\* the page has taken a response with two matched codes and one not found
C13_Witness ==
  /\ sheet.data.kind = "ok"
  /\ sheet.pdfParseInfo.set
  /\ Len(sheet.data.extractedCodes) = 3
  /\ sheet.pdfParseInfo.found = 2
  /\ Len(sheet.pdfParseInfo.notFound) = 1

\* C14: the matched products come in the order in which their codes first
\* appear in the extraction, one for each code that has a catalog row under
\* an equality that ignores case, and notFound holds the codes without a row,
\* in that order too.
C14_MatchedInExtractionOrder ==
  (sheet.data.kind = "ok" /\ sheet.data.hasProducts) =>
    LET d == sheet.data
        Found(c) == HasRow(catalog, c)
        Missing(c) == ~HasRow(catalog, c)
        found == SelectSeq(d.extractedCodes, Found)
    IN  /\ Len(d.products) = Len(found)
        /\ \A i \in 1..Len(d.products) :
             /\ SameCode(d.products[i].code, found[i])
             /\ d.products[i].id \in 1..Len(catalog)
             /\ d.products[i] = ApiProduct(catalog, d.products[i].id)
        /\ d.notFoundCodes = SelectSeq(d.extractedCodes, Missing)

\* BW-001, BW-002, BW-003 against a catalog that holds BW-001 alone
C14_Witness ==
  /\ sheet.data.kind = "ok"
  /\ sheet.data.extractedCodes = <<BW001, BW002, BW003>>
  /\ CodesOf(catalog) = {BW001}
  /\ Len(sheet.data.products) = 1
  /\ sheet.data.products[1].code = BW001
  /\ sheet.data.notFoundCodes = <<BW002, BW003>>

\* C17: an upload that settles with the response the upload before it settled
\* with leaves the selection as that first upload left it: the same entries
\* in the same order with the same quantities and notes.
C17_ReuploadIsIdempotent ==
  \A res \in SheetResponses(catalog) :
    LET first == sheetPdfOutcome(sheet, res)
        second == sheetPdfOutcome(first, res)
    IN  second.selected = first.selected

\* a second upload is in flight after one that added two products, one of
\* them with a quantity typed since
C17_Witness ==
  /\ sheet.parsingPdf
  /\ sheet.data.kind = "ok"
  /\ Len(sheet.data.products) = 2
  /\ Len(sheet.selected) = 2
  /\ \A i \in 1..2 : sheet.selected[i].id = sheet.data.products[i].id
  /\ sheet.selected[1].quantity = <<"2">>


\* ----------------------------------------------- the Record Parser: C15

\* the entries taken so far that made a full record of the code
FullOccurrences(code) ==
  {i \in 1..scan.pos : scan.doc[i].full /\ UpperCase(scan.doc[i].code) = code}

Least(S) == CHOOSE i \in S : \A j \in S : i <= j

Greatest(S) == CHOOSE i \in S : \A j \in S : i >= j

\* C15: records holds one record for each code that made a full record and no
\* more, in the order in which these codes first made one; the record of a
\* code is the one of its last occurrence; allCodes holds every code seen,
\* each once.
C15_RecordsKeepLastOccurrence ==
  LET recs == scan.records
  IN  /\ \A i, j \in 1..Len(recs) : recs[i].code = recs[j].code => i = j
      /\ {recs[i].code : i \in 1..Len(recs)} =
           {UpperCase(scan.doc[i].code) : i \in {k \in 1..scan.pos : scan.doc[k].full}}
      /\ \A i, j \in 1..Len(recs) :
           i < j => Least(FullOccurrences(recs[i].code))
                      < Least(FullOccurrences(recs[j].code))
      /\ \A i \in 1..Len(recs) :
           recs[i] = RecordOf(scan.doc[Greatest(FullOccurrences(recs[i].code))])
      /\ \A i, j \in 1..Len(scan.allCodes) :
           scan.allCodes[i] = scan.allCodes[j] => i = j
      /\ Range(scan.allCodes) = {UpperCase(scan.doc[i].code) : i \in 1..scan.pos}

\* a document parsed to its end in which a code made a record twice, with
\* another code between, and the later text was kept in the first place
C15_Witness ==
  /\ scan.pos = 3
  /\ Len(scan.doc) = 3
  /\ scan.doc[1] = [code |-> bw001, full |-> TRUE, text |-> <<"Porcelain tile">>]
  /\ scan.doc[3] = [code |-> BW001, full |-> TRUE, text |-> <<"Tapware">>]
  /\ Len(scan.records) = 2
  /\ scan.records[1] = [code |-> BW001, text |-> <<"Tapware">>]
  /\ scan.records[2].code = BW002


\* -------------------------------------------------- the allocator: C18

\* the codes of the catalog that start with the prefix
Under(cat, prefix) == {c \in CodesOf(cat) : IsPrefixOf(prefix, c)}

\* the greatest of them in the order of the strings, if there is one
IsGreatestUnder(c, cat, prefix) ==
  /\ c \in Under(cat, prefix)
  /\ \A d \in Under(cat, prefix) : d = c \/ StrLess(d, c)

\* C18: when the greatest code under the prefix has no suffix, or a suffix
\* that Number() does not read as a number, and when no code is under the
\* prefix, the code allocated is the prefix followed by 001.
C18_NoNumberGivesFirstCode ==
  (/\ req[1].tries = 1
   /\ req[1].prefix # Inherited
   /\ \/ Under(req[1].before, req[1].prefix) = {}
      \/ \E c \in Under(req[1].before, req[1].prefix) :
           /\ IsGreatestUnder(c, req[1].before, req[1].prefix)
           /\ \/ SliceFrom(c, Len(req[1].prefix)) = Empty
              \/ ToNumber(SliceFrom(c, Len(req[1].prefix))).nan)
  => /\ req[1].pc \in {"create", "done"}
     /\ req[1].code = req[1].prefix \o <<"0", "0", "1">>

\* the greatest code under A is Ax, above A999, and A001 has been allocated
C18_Witness ==
  /\ req[1].pc = "create"
  /\ req[1].prefix = <<"A">>
  /\ {<<"A", "x">>, A999} \subseteq CodesOf(catalog)
  /\ req[1].code = A001


\* ------------------------------------------- a failing import: C19

\* C19: when the import fails at its k-th product, the k-1 rows it created
\* are in the catalog after the rows that were there, the response has status
\* 500 and a savedCount of k-1, and once it has answered the request changes
\* neither the catalog nor the bucket: no later product is processed.
C19_FailureKeepsSavedRows ==
  /\ [](req[1].pc = "done" /\ req[1].status = 500 =>
          LET q == req[1]
              k == q.idx
          IN  /\ k \in 1..Len(q.body.products)
              /\ Len(q.saved) = k - 1
              /\ q.savedCount = k - 1
              /\ catalog = q.before \o q.saved
              /\ \A i \in 1..(k - 1) :
                   q.saved[i].area = CategoryOf(q.body.products[i])
              /\ q.fault \/ q.conflict \/ q.prefix = Inherited)
  /\ [][req[1].pc = "done" => catalog' = catalog /\ r2' = r2]_vars

\* an import of three products has failed at the second
C19_Witness ==
  /\ req[1].pc = "done"
  /\ req[1].status = 500
  /\ Len(req[1].body.products) = 3
  /\ req[1].idx = 2
  /\ req[1].savedCount = 1
  /\ Len(catalog) = Len(req[1].before) + 1


\* ------------------------------------------- the checks of a POST: C20

\* the products field of the body is an array that is not empty
HasProducts(body) == body.kind = "array" /\ Len(body.products) > 0

\* C20: a POST without a session to the import endpoint or to the area
\* endpoint is answered 401, and a POST with a session whose body is no JSON,
\* or an import whose products field is no array or an empty one, is answered
\* 400; these requests make no call to the store, and the step that answers
\* them leaves the product table and the area table as they are.
C20_RejectedBeforeAnyAccess ==
  /\ [](\A r \in Slots :
          /\ (req[r].pc = "done" /\ ~req[r].session) =>
               req[r].status = 401 /\ req[r].db = 0 /\ req[r].saved = <<>>
          /\ (req[r].pc = "done" /\ req[r].session /\ ~HasProducts(req[r].body)) =>
               req[r].status = 400 /\ req[r].db = 0 /\ req[r].saved = <<>>
          /\ (areq[r].pc = "done" /\ ~areq[r].session) =>
               areq[r].status = 401 /\ areq[r].db = 0
          /\ (areq[r].pc = "done" /\ areq[r].session
                 /\ areq[r].body.kind = "badjson") =>
               areq[r].status = 400 /\ areq[r].db = 0)
  /\ [][\A r \in Slots :
          (\/ req[r].pc = "received" /\ req'[r].pc = "done"
           \/ areq[r].pc = "received" /\ areq'[r].pc = "done")
          => catalog' = catalog /\ areas' = areas /\ r2' = r2]_vars

\* both endpoints have turned a request without a session away while the
\* tables held rows
C20_Witness ==
  /\ req[1].pc = "done" /\ ~req[1].session /\ req[1].status = 401
  /\ HasProducts(req[1].body)
  /\ \E r \in Slots :
       /\ areq[r].pc = "done" /\ ~areq[r].session /\ areq[r].status = 401
       /\ Truthy(AreaNameOf(areq[r].body))

\* ------------------------------ concurrent area requests: SpecArea

\* area requests in every slot, on a store that answers every call
NextArea ==
  \E r \in Slots :
    \/ \E session \in BOOLEAN, body \in AreaBodies : AreaReceive(r, session, body)
    \/ AreaValidate(r)
    \/ AreaFind(r)
    \/ AreaCreate(r)
    \/ AreaDeliver(r)

SpecArea == Init /\ [][NextArea]_vars

\* a request that passed the session, body and name checks
Named(q) ==
  q.session /\ q.body.kind = "json" /\ Truthy(AreaNameOf(q.body))

\* C21: of the area-create requests that carry the same trimmed name, one
\* creates the area and is answered 200 and every other one is answered 400
\* "Area already exists", and no two areas share a name
C21_OneCreatesOthersGet400 ==
  /\ \A r \in Slots :
       areq[r].pc = "done" /\ Named(areq[r]) => areq[r].status \in {200, 400}
  /\ \A i, j \in 1..Len(areas) : areas[i] = areas[j] => i = j

\* ------------------------------------------------- the table: C22

\* C22: the table of the BWA page always has at least one row, and removing
\* the only row of a table changes nothing in the table
C22_TableKeepsOneRow ==
  /\ [](Len(page.rows) >= 1)
  /\ [][\A i \in 1..Len(page.rows) :
          removeRow(page.rows[i].id) /\ Len(page.rows) = 1 =>
            page'.rows = page.rows]_vars

\* an upload filled the table with two rows and a removal left the first:
\* the banner is still shown, so no Clear all came after the upload
C22_Witness ==
  /\ page.parsedInfo.set
  /\ page.parsedInfo.productCount = 2
  /\ Len(page.rows) = 1
  /\ page.rows[1].id + 2 = page.nextId

\* --------------------- any response to the selection page: SpecSelect

\* how many products a response may list
MaxListed == 2

SelectCatalog ==
  <<SeedRow(BW001, Other), SeedRow(BW002, <<"Kitchen">>), SeedRow(BW003, Other)>>

\* the lists of products a response may hold: a product may be listed twice
ListedProducts ==
  UNION {[1..n -> {ApiProduct(SelectCatalog, i) : i \in 1..Len(SelectCatalog)}] :
           n \in 0..MaxListed}

\* how the fetch of an upload may settle, whatever the server answers
SelectResponses ==
  {[NoData EXCEPT !.kind = "throws"],
   [NoData EXCEPT !.kind = "notok"],
   [NoData EXCEPT !.kind = "notok", !.error = "No PDF file provided"],
   [NoData EXCEPT !.kind = "ok"],
   [NoData EXCEPT !.kind = "ok", !.notFoundCodes = <<A001>>]}
  \cup {[NoData EXCEPT !.kind = "ok", !.hasProducts = TRUE, !.products = l,
                       !.notFoundCodes = nf] :
          l \in ListedProducts, nf \in {<<>>, <<A001>>}}

InitSelect ==
  /\ catalog = SelectCatalog
  /\ r2 = {}
  /\ req = [r \in Slots |-> IdleReq]
  /\ nreq = 0
  /\ alloc = [n |-> 0, last |-> Null]
  /\ page = PageInit
  /\ sheet = SheetInit
  /\ areas = <<>>
  /\ areq = [r \in Slots |-> IdleAreaReq]
  /\ scan = IdleScan
  /\ form = FormInit

NextSelect ==
  \/ \E i \in 1..Len(catalog) : toggleSelect(ApiProduct(catalog, i))
  \/ \E i \in 1..Len(sheet.selected) :
       \/ updateSelected(sheet.selected[i].id, "quantity", <<"2">>)
       \/ updateSelected(sheet.selected[i].id, "notes", <<"fragile">>)
  \/ clearSelected
  \/ \E isPdf \in BOOLEAN : sheetHandlePdfUpload(isPdf)
  \/ \E res \in SelectResponses : sheetPdfSettles(res)

SpecSelect == InitSelect /\ [][NextSelect]_vars

\* ------------------------------------------- the selection: C23, C24

\* how many entries of the selection sel hold the product id
EntriesOf(sel, id) == Cardinality({i \in 1..Len(sel) : sel[i].id = id})

\* C23: the selection never holds two entries with the same product id
C23_SelectionHasNoDuplicate ==
  \A i, j \in 1..Len(sheet.selected) :
    sheet.selected[i].id = sheet.selected[j].id => i = j

\* the last upload listed a product twice and the selection holds it
C23_Witness ==
  /\ ~sheet.parsingPdf
  /\ sheet.pdfParseInfo.set
  /\ Len(sheet.data.products) = 2
  /\ sheet.data.products[1] = sheet.data.products[2]
  /\ IsSelected(sheet.selected, sheet.data.products[1].id)

\* the upload added products: an OK response with a list that is not empty
Succeeded(res) == res.kind = "ok" /\ res.hasProducts /\ Len(res.products) > 0

\* C24: when the fetch of an upload settles (parsingPdf falls, data being the
\* body that was read), the entries of the selection are
\* kept at the head of the selection, in their order and with their quantity
\* and notes; a failure or a response without products adds nothing, and a
\* success leaves every product of the response selected exactly once
C24_UploadOnlyAppends ==
  [][sheet.parsingPdf /\ ~sheet'.parsingPdf =>
       LET res == sheet'.data
       IN  /\ Len(sheet'.selected) >= Len(sheet.selected)
           /\ SubSeq(sheet'.selected, 1, Len(sheet.selected)) = sheet.selected
           /\ IF Succeeded(res)
              THEN /\ \A k \in 1..Len(res.products) :
                        EntriesOf(sheet'.selected, res.products[k].id) = 1
                   /\ \A i \in 1..Len(sheet'.selected) :
                        i > Len(sheet.selected) =>
                          \E k \in 1..Len(res.products) :
                            sheet'.selected[i].id = res.products[k].id
              ELSE sheet'.selected = sheet.selected]_vars

\* an upload added a product behind an entry whose quantity had been typed
C24_Witness ==
  /\ ~sheet.parsingPdf
  /\ sheet.pdfParseInfo.set
  /\ Len(sheet.selected) = 2
  /\ sheet.selected[1].quantity = <<"2">>
  /\ sheet.selected[2].quantity = Empty
  /\ \E k \in 1..Len(sheet.data.products) :
       sheet.data.products[k].id = sheet.selected[2].id
  /\ \A k \in 1..Len(sheet.data.products) :
       sheet.data.products[k].id # sheet.selected[1].id

\* ------------------------------- uploads on both pages: SpecParsing

\* how the fetch of an upload to the BWA page may settle: a rejection, an
\* error status, no product, one product
BwaSettled ==
  {res \in PdfResponses : res.error = "" /\ Len(res.products) <= 1}

\* the same for the selection page
SheetSettled ==
  {[NoData EXCEPT !.kind = "throws"],
   [NoData EXCEPT !.kind = "notok"],
   [NoData EXCEPT !.kind = "ok"],
   [NoData EXCEPT !.kind = "ok", !.hasProducts = TRUE,
                  !.products = <<ApiProduct(SelectCatalog, 1)>>]}

\* the operator of each page uploads files; the fetches settle in any order
NextParsing ==
  \/ \E isPdf \in BOOLEAN : handlePdfUpload(isPdf)
  \/ \E res \in BwaSettled : pdfSettles(res)
  \/ clearAll
  \/ \E isPdf \in BOOLEAN : sheetHandlePdfUpload(isPdf)
  \/ \E res \in SheetSettled : sheetPdfSettles(res)
  \/ clearSelected

SpecParsing == InitSelect /\ [][NextParsing]_vars

\* C25: while a parse-pdf request of a page is in flight, the parsing flag of
\* that page (parsing, parsingPdf) is true; a page has at most one such
\* request in flight, as it takes no second file before the first has settled
C25_InFlightMeansParsing ==
  /\ page.inflight > 0 => page.parsing
  /\ sheet.inflight > 0 => sheet.parsingPdf
  /\ page.inflight <= 1
  /\ sheet.inflight <= 1

\* each page has an upload in flight after an earlier upload of its own ended
C25_Witness ==
  /\ page.inflight = 1
  /\ page.parsing
  /\ page.toast = "Extracted products from PDF"
  /\ sheet.inflight = 1
  /\ sheet.parsingPdf
  /\ sheet.data.kind = "ok"

\* ------------------------------- searches of the selection page: SpecSearch

\* what the operator may have in the search box
SearchTexts == {Empty, <<"b">>, <<"b", "w">>, <<"b", "w", "-">>, <<" ", "b", " ">>}

\* how a search that was not aborted may settle
SearchResponses ==
  {[kind |-> "throws", products |-> <<>>],
   [kind |-> "notok", products |-> <<>>],
   [kind |-> "ok", products |-> <<>>],
   [kind |-> "ok", products |-> <<ApiProduct(SelectCatalog, 1)>>]}

NextSearch ==
  \/ \E text \in SearchTexts : setSearch(text)
  \/ \E i \in 1..Len(sheet.fetches), res \in SearchResponses : searchSettles(i, res)
  \/ \E i \in 1..Len(sheet.products) : toggleSelect(sheet.products[i])

SpecSearch == InitSelect /\ [][NextSearch]_vars

\* C26: while a search that has not been aborted is in flight,
\* loadingProducts is true
C26_LoadingWhileSearching ==
  (\E i \in 1..Len(sheet.fetches) : ~sheet.fetches[i].aborted)
    => sheet.loadingProducts

\* --------------------------- the create-schedule form: SpecForm

\* what the operator may have in the search box of the form
QueryTexts == {Empty, <<"b">>, <<"b", "w">>, <<"b", "w", "-">>}

\* how a search of the form may settle
QueryResponses ==
  {[kind |-> "throws", products |-> <<>>],
   [kind |-> "ok", products |-> <<>>],
   [kind |-> "ok", products |-> <<FormProduct(SelectCatalog, 1)>>],
   [kind |-> "ok", products |-> <<FormProduct(SelectCatalog, 1),
                                   FormProduct(SelectCatalog, 2)>>]}

\* the values a number input may hand over: empty for text that is no number
QuantityTexts ==
  {Empty, <<"0">>, <<"5">>, <<"-", "3">>, <<"1", ".", "5">>, <<"-", "0", ".", "5">>}

NextForm ==
  \/ \E query \in QueryTexts : handleSearch(query)
  \/ \E i \in 1..Len(form.fetches), res \in QueryResponses : formSearchSettles(i, res)
  \/ \E i \in 1..Len(form.searchResults) : addProduct(form.searchResults[i])
  \/ \E i \in 1..Len(form.selectedProducts) :
       \/ removeProduct(form.selectedProducts[i].id)
       \/ \E text \in QuantityTexts :
            updateProduct(form.selectedProducts[i].id, "quantity", QuantityTyped(text))
       \/ updateProduct(form.selectedProducts[i].id, "notes", <<"fragile">>)

SpecForm == InitSelect /\ [][NextForm]_vars

\* C27: once every search of the form has settled, searchResults is empty
\* when the text of the box has fewer than 2 characters, and else it is the
\* list the search for that text was answered with
C27_ResultsOfLatestQuery ==
  form.fetches = <<>> =>
    IF Len(form.searchQuery) < 2 THEN form.searchResults = <<>>
    ELSE form.answer.set => form.searchResults = form.answer.products

\* C30: every selected product of the form has an integer quantity of at
\* least 1, and no two selected products share an id
C30_QuantitiesAtLeastOne ==
  /\ \A i \in 1..Len(form.selectedProducts) :
       /\ form.selectedProducts[i].quantity \in Int
       /\ form.selectedProducts[i].quantity >= 1
  /\ \A i, j \in 1..Len(form.selectedProducts) :
       form.selectedProducts[i].id = form.selectedProducts[j].id => i = j

\* --------------------------- generating a document: SpecGenerate

\* what the operator may have in the address box
AddressTexts == {Empty, <<" ">>, <<"1 Main St">>}

\* the form after a search for "bw" has been answered with two products
InitGenerate ==
  /\ catalog = SelectCatalog
  /\ r2 = {}
  /\ req = [r \in Slots |-> IdleReq]
  /\ nreq = 0
  /\ alloc = [n |-> 0, last |-> Null]
  /\ page = PageInit
  /\ sheet = SheetInit
  /\ areas = <<>>
  /\ areq = [r \in Slots |-> IdleAreaReq]
  /\ scan = IdleScan
  /\ form = [FormInit EXCEPT
       !.searchQuery = <<"b", "w">>,
       !.searchResults = <<FormProduct(SelectCatalog, 1), FormProduct(SelectCatalog, 2)>>,
       !.answer = [set |-> TRUE,
                   products |-> <<FormProduct(SelectCatalog, 1),
                                  FormProduct(SelectCatalog, 2)>>]]

NextGenerate ==
  \/ \E text \in AddressTexts : setAddress(text)
  \/ toggleSelect(ApiProduct(catalog, 1))
  \/ sheetGenerateDocument
  \/ \E kind \in {"ok", "notok", "throws"} : sheetGenerateSettles(kind)
  \/ \E text \in AddressTexts : formSetAddress(text)
  \/ \E i \in 1..Len(form.searchResults) : addProduct(form.searchResults[i])
  \/ \E i \in 1..Len(form.selectedProducts) : removeProduct(form.selectedProducts[i].id)
  \/ formGenerateDocument
  \/ formTemplateArrives
  \/ \E kind \in {"ok", "throws"} : formGenerateSettles(kind)

SpecGenerate == InitGenerate /\ [][NextGenerate]_vars

\* ---------------------------------- the checks of generateDocument: C28

Blank(address) == Trim(address) = Empty

\* C28: when the address is blank after trimming or no product is selected,
\* generateDocument sends no request, leaves generating false and shows the
\* error, on the selection page and on the form
C28_NothingSentWithoutAddressOrProduct ==
  [][/\ sheetGenerateDocument /\ (Blank(sheet.address) \/ Len(sheet.selected) = 0) =>
          /\ sheet'.genSent = sheet.genSent
          /\ ~sheet'.genPending
          /\ ~sheet'.generating
          /\ sheet'.message = IF Blank(sheet.address) THEN "Address is required"
                              ELSE "Select at least one product"
     /\ formGenerateDocument
          /\ (Blank(form.address) \/ Len(form.selectedProducts) = 0) =>
          /\ form'.genSent = form.genSent
          /\ form'.genStage = "idle"
          /\ ~form'.generating
          /\ form'.toast = IF Blank(form.address) THEN "Address is required"
                           ELSE "Add at least one product"]_vars

\* each page has refused to generate for an address of white space, products
\* being selected
C28_Witness ==
  /\ sheet.address = <<" ">>
  /\ Len(sheet.selected) > 0
  /\ sheet.message = "Address is required"
  /\ sheet.genSent = 0
  /\ form.address = <<" ">>
  /\ Len(form.selectedProducts) > 0
  /\ form.toast = "Address is required"
  /\ form.genSent = 0

\* ------------------------------------- the busy flags: SpecBusy

\* the import request of the page is served by the endpoint
ServeImport ==
  Validate(1) \/ Alloc(1) \/ Upload(1) \/ Create(1) \/ StorageFails(1)

\* the endpoint has a step to take on the import
Serving == req[1].pc \in {"received", "alloc", "upload", "create"}

\* weak fairness of ServeImport, written out: ServeImport is enabled exactly
\* while Serving, and each of its steps changes req
ServedFairly == []<>(~Serving) \/ []<><<ServeImport>>_vars

\* the response to the import reaches the page, or its fetch rejects
ImportEnds == importSettles \/ importThrows

PdfEnds == \E res \in BwaSettled : pdfSettles(res)

SheetPdfEnds == \E res \in SheetSettled : sheetPdfSettles(res)

GenerateEnds == \E kind \in {"ok", "notok", "throws"} : sheetGenerateSettles(kind)

\* the two pages are routes of one application: the operator has one of them
\* open, and the state of a page lives as long as the page is open
BwaOpen == sheet = SheetInit

SheetOpen == page = PageInit /\ req[1] = IdleReq

NextBusy ==
  \/ /\ BwaOpen
     /\ \/ handlePdfUpload(TRUE)
        \/ PdfEnds
        \/ \E session \in BOOLEAN : handleImport(session)
        \/ ServeImport
        \/ ImportEnds
  \/ /\ SheetOpen
     /\ \/ sheetHandlePdfUpload(TRUE)
        \/ SheetPdfEnds
        \/ setAddress(<<"1 Main St">>)
        \/ sheetGenerateDocument
        \/ GenerateEnds

\* every request settles: the endpoint goes on serving the import, and every
\* fetch comes to be answered or rejected
SpecBusy ==
  /\ InitSelect
  /\ [][NextBusy]_vars
  /\ ServedFairly
  /\ WF_vars(ImportEnds)
  /\ WF_vars(PdfEnds)
  /\ WF_vars(SheetPdfEnds)
  /\ WF_vars(GenerateEnds)

\* C29: a busy flag that is true becomes false again: saving and parsing on
\* the BWA page, parsingPdf and generating on the selection page
C29_BusyFlagsFall ==
  /\ page.saving ~> ~page.saving
  /\ page.parsing ~> ~page.parsing
  /\ sheet.parsingPdf ~> ~sheet.parsingPdf
  /\ sheet.generating ~> ~sheet.generating

\* an import or a generation has failed after an upload that worked, and no
\* flag of the page is left set
C29_Witness ==
  \/ /\ page.parsedInfo.set
     /\ page.toast \in {"Failed to import", "Failed to save products"}
     /\ ~page.saving
     /\ ~page.parsing
  \/ /\ sheet.pdfParseInfo.set
     /\ sheet.message = "Failed to generate file"
     /\ ~sheet.generating
     /\ ~sheet.parsingPdf

====
